---- MODULE Spec2Model ----
(***************************************************************************)
(* Brand Visibility Tracker: the prompt store (PromptService) and the AI   *)
(* scoring / aggregation pipeline (AIService, version 2.0.0).              *)
(*                                                                         *)
(* JavaScript values are encoded as follows.                               *)
(*  - a string is a tuple of text fragments; "" and undefined are <<>>,    *)
(*    so truthiness of a string is Len(s) > 0 and a + b is a \o b;         *)
(*  - an exception is a completion record [thrown |-> TRUE, msg |-> ...],  *)
(*    a normal return is [thrown |-> FALSE, val |-> ...];                  *)
(*  - a number that results from a division is a pair <<num, den>>, null   *)
(*    being <<0, 0>>.                                                      *)
(***************************************************************************)
EXTENDS Integers, Sequences, FiniteSets, TLC

\* --------------------------------------------------------------------------
\* Bounds
\* --------------------------------------------------------------------------
\* number of data rows of the largest prompt CSV file
MaxRows == 6
\* number of analyzeWithMultiplePrompts invocations in one process life
MaxRuns == 2
\* number of loadPrompts / getPromptsByStage invocations per direct caller
MaxLoadCalls == 2
\* largest sum of one sentiment component over the successful prompts
MaxComponent == 5
\* number of (model, stage) pairs of the longest analysis
MaxPairs == 3
\* number of prompts of a stage in a run of the older service
MaxPrompts == 2

VARIABLES
    \* the prompt definition source (mvp_prompts_with_funnel_scoring.csv)
    csvFile,
    \* PromptService static state
    prompts, isInitialized,
    \* direct callers of PromptService.loadPrompts / getPromptsByStage
    lpc, lstage, lgot, lret, lcalls, lfirst,
    \* observation of the file system: fs.readFile calls, finished loads
    readCount, firstWaveReads, loadsFinished,
    \* observation of the cache: the list of the first successful load,
    \* whether a read was started after a successful load, and for each
    \* caller whether its call began after a successful load
    firstList, readAfterLoad, llate,
    \* AIService.analyzeWithMultiplePrompts: arguments and control point
    pc, run, model, stage, brandData,
    \* AIService.analyzeWithMultiplePrompts: locals
    stagePrompts, idx, promptResults, totalResponseTime, successfulPrompts,
    totalWeightedScore, totalWeightSum, sentimentScores,
    \* AIService.analyzeBrand: locals of the invocation in progress
    aiResponse,
    \* what analyzeWithMultiplePrompts returned or threw
    outcome,
    \* observation of the pipeline: LLM calls, analyzeBrand invocations,
    \* the inputs each prompt met, awaited delays
    inFlight, callLog, abCalls, abReturns, abThrows, analyzed, inputs, delays,
    \* one invocation of a function of the services taken by itself: its
    \* name, its arguments, and its completion once it has run
    call,
    \* the analysis workflow: the AnalysisStatus document, the AnalysisPair
    \* records, the pairs the analysis was created with
    analysisStatus, analysisPair, pairList,
    \* the workflow invocation in progress: its step, payload and error, and
    \* the requests for a next invocation that are in flight
    wpc, payload, werror, queue,
    \* observation of the workflow: pairs analysed, pairs stored, mails sent
    analysedPairs, storedPairs, emails

psVars == <<csvFile, prompts, isInitialized, readCount, firstWaveReads,
            loadsFinished, firstList, readAfterLoad>>
loaderVars == <<lpc, lstage, lgot, lret, lcalls, lfirst, llate>>
runVars == <<pc, run, model, stage, brandData, stagePrompts, idx, promptResults,
             totalResponseTime, successfulPrompts, totalWeightedScore,
             totalWeightSum, sentimentScores, aiResponse, outcome>>
obsVars == <<inFlight, callLog, abCalls, abReturns, abThrows, analyzed,
             inputs, delays>>
wfVars == <<analysisStatus, analysisPair, pairList, wpc, payload, werror,
            queue, analysedPairs, storedPairs, emails>>
vars == <<psVars, loaderVars, runVars, obsVars, call, wfVars>>

\* --------------------------------------------------------------------------
\* Types
\* --------------------------------------------------------------------------
\* AnalysisStage
Stages == {"TOFU", "MOFU", "BOFU", "EVFU"}

\* AIModel, and one value outside the union that reaches the switch default
SupportedModels == {"ChatGPT", "Claude", "Gemini", "Perplexity"}

Loaders == {"l1", "l2"}

\* --------------------------------------------------------------------------
\* The prompt definition source
\* --------------------------------------------------------------------------
\* Data row i of the CSV file, as the header-keyed record that loadPrompts
\* builds from parseCSVLine: row 2 has an empty prompt_text, row 4 has no
\* funnel_stage value, rows 1, 3 and 6 are valid Awareness prompts.
csvRow(i) ==
    [prompt_id    |-> <<"p", ToString(i)>>,
     prompt_text  |-> IF i = 2 THEN <<>>
                      ELSE <<"Best ", "{category}", " tools in ", "{region}",
                             "? #", ToString(i)>>,
     funnel_stage |-> IF i = 4 THEN ""
                      ELSE IF i \in {1, 2, 3, 6} THEN "TOFU"
                      ELSE IF i % 2 = 1 THEN "MOFU" ELSE "EVFU"]

\* The file as fs.readFile sees it: missing/unreadable, or a content, which
\* is a header followed by the first n rows.
CsvFiles == { [readable |-> FALSE, rows |-> <<>>] }
            \cup { [readable |-> TRUE, rows |-> [i \in 1..n |-> csvRow(i)]] :
                      n \in 0..MaxRows }

\* loadPrompts, row processing: one ProcessedPrompt per data row
rowToPrompt(row) ==
    [prompt_id    |-> row.prompt_id,
     prompt_text  |-> row.prompt_text,
     funnel_stage |-> row.funnel_stage]

\* loadPrompts, filter: p.prompt_id && p.prompt_text
isValidPrompt(p) == Len(p.prompt_id) > 0 /\ Len(p.prompt_text) > 0

\* loadPrompts, the list built from the file content
parsePrompts(rows) ==
    SelectSeq([i \in 1..Len(rows) |-> rowToPrompt(rows[i])], isValidPrompt)

\* loadPrompts, cache check: this.isInitialized && this.prompts.length > 0
cacheHit == isInitialized /\ Len(prompts) > 0

\* getPromptsByStage: allPrompts.filter(p => p.funnel_stage === stage)
filterByStage(all, s) ==
    LET Test(p) == p.funnel_stage = s IN SelectSeq(all, Test)

\* --------------------------------------------------------------------------
\* Direct callers of PromptService (any request handler of the process)
\* --------------------------------------------------------------------------
\* the value the caller receives from the list loadPrompts gave it
loaderResult(all, s) == IF s = "" THEN all ELSE filterByStage(all, s)

\* A caller enters loadPrompts: a cache hit returns the cached list at once,
\* otherwise fs.readFile is started and the caller is suspended on it.
LoaderEnter(c) ==
    /\ lpc[c] \in {"idle", "done", "failed"}
    /\ lcalls[c] < MaxLoadCalls
    /\ \E s \in {"", "TOFU", "EVFU"} :
        /\ lstage' = [lstage EXCEPT ![c] = s]
        /\ lcalls' = [lcalls EXCEPT ![c] = @ + 1]
        /\ lfirst' = [lfirst EXCEPT ![c] = (loadsFinished = 0)]
        /\ llate' = [llate EXCEPT ![c] = isInitialized]
        /\ IF cacheHit
           THEN /\ lpc' = [lpc EXCEPT ![c] = "done"]
                /\ lgot' = [lgot EXCEPT ![c] = prompts]
                /\ lret' = [lret EXCEPT ![c] = loaderResult(prompts, s)]
                /\ loadsFinished' = loadsFinished + 1
                /\ UNCHANGED <<readCount, firstWaveReads, readAfterLoad>>
           ELSE /\ lpc' = [lpc EXCEPT ![c] = "reading"]
                /\ readCount' = readCount + 1
                /\ firstWaveReads' =
                       firstWaveReads + (IF loadsFinished = 0 THEN 1 ELSE 0)
                /\ readAfterLoad' = (readAfterLoad \/ isInitialized)
                /\ UNCHANGED <<lgot, lret, loadsFinished>>
    /\ UNCHANGED <<csvFile, prompts, isInitialized, firstList, runVars,
                   obsVars, call, wfVars>>

\* fs.readFile resolves: the rows are processed, filtered and cached.
LoaderResolve(c) ==
    /\ lpc[c] = "reading"
    /\ csvFile.readable
    /\ LET loaded == parsePrompts(csvFile.rows) IN
        /\ prompts' = loaded
        /\ isInitialized' = TRUE
        /\ lgot' = [lgot EXCEPT ![c] = loaded]
        /\ lret' = [lret EXCEPT ![c] = loaderResult(loaded, lstage[c])]
        /\ firstList' = IF isInitialized THEN firstList ELSE loaded
    /\ lpc' = [lpc EXCEPT ![c] = "done"]
    /\ loadsFinished' = loadsFinished + 1
    /\ UNCHANGED <<csvFile, readCount, firstWaveReads, readAfterLoad, lstage,
                   lcalls, lfirst, llate, runVars, obsVars, call, wfVars>>

\* fs.readFile rejects: loadPrompts throws "Failed to load prompts".
LoaderReject(c) ==
    /\ lpc[c] = "reading"
    /\ ~csvFile.readable
    /\ lpc' = [lpc EXCEPT ![c] = "failed"]
    /\ lgot' = [lgot EXCEPT ![c] = <<>>]
    /\ lret' = [lret EXCEPT ![c] = <<>>]
    /\ loadsFinished' = loadsFinished + 1
    /\ UNCHANGED <<csvFile, prompts, isInitialized, readCount, firstWaveReads,
                   firstList, readAfterLoad, lstage, lcalls, lfirst, llate,
                   runVars, obsVars, call, wfVars>>

\* The file is replaced on disk while the process runs.
EditCsv ==
    /\ \E f \in CsvFiles : f # csvFile /\ csvFile' = f
    /\ UNCHANGED <<prompts, isInitialized, readCount, firstWaveReads,
                   loadsFinished, firstList, readAfterLoad, loaderVars,
                   runVars, obsVars, call, wfVars>>

\* --------------------------------------------------------------------------
\* JavaScript completions and error values
\* --------------------------------------------------------------------------
Return(v) == [thrown |-> FALSE, isError |-> FALSE, msg |-> <<>>, val |-> v]

\* throw new Error(m), or a TypeError raised by the runtime
Throw(m, dflt) == [thrown |-> TRUE, isError |-> TRUE, msg |-> m, val |-> dflt]

\* a rejection whose reason is not an Error instance
ThrowValue(dflt) ==
    [thrown |-> TRUE, isError |-> FALSE, msg |-> <<>>, val |-> dflt]

\* error instanceof Error ? error.message : "Unknown error"
errorMessage(e) == IF e.isError THEN e.msg ELSE <<"Unknown error">>

\* Array.prototype.join
RECURSIVE join(_, _)
join(list, sep) ==
    IF list = <<>> THEN <<>>
    ELSE IF Len(list) = 1 THEN list[1]
    ELSE list[1] \o <<sep>> \o join(Tail(list), sep)

\* --------------------------------------------------------------------------
\* The parsed scoring judgment (the value JSON.parse yields)
\* --------------------------------------------------------------------------
requiredFields == <<"score", "confidence", "rationale", "sentiment">>

SentimentKeys == {"positive", "neutral", "negative", "strongly_positive"}

zeroDistribution ==
    [positive |-> 0, neutral |-> 0, negative |-> 0, strongly_positive |-> 0]

\* A JavaScript value as the pipeline inspects it:
\*   jtype       null | number | string | array | object
\*   keys        the own keys of the object
\*   scoreType   the score value: undefined | null | string | NaN | number
\*   sentKind    the sentiment value:
\*               undefined | null | string | number | array | object
\*   distKind    sentiment.distribution: absent | null | object
JsValue(jtype, keys, scoreType, score, sentKind, distKind, dist) ==
    [jtype |-> jtype, keys |-> keys, scoreType |-> scoreType,
     score |-> score, rationale |-> <<"rationale">>, sentKind |-> sentKind,
     distKind |-> distKind, distribution |-> dist]

AllKeys == {"score", "confidence", "rationale", "sentiment"}

\* a value that is no object has none of the properties
jsPrimitive(jtype) ==
    JsValue(jtype, {}, "undefined", 0, "undefined", "absent", zeroDistribution)

jsNull   == jsPrimitive("null")
jsNumber == jsPrimitive("number")
jsArray  == jsPrimitive("array")

\* typeof v, for the kinds of value above (NaN is a number, null an object)
jsTypeof(kind) ==
    CASE kind \in {"number", "NaN"} -> "number"
      [] kind \in {"null", "array", "object"} -> "object"
      [] OTHER -> kind

\* isNaN(v) for a v whose typeof is number
jsIsNaN(kind) == kind = "NaN"

\* !v is false: the value is truthy (strings and numbers of the judgments
\* are non-empty and non-zero)
jsTruthy(kind) == kind \notin {"undefined", "null", "NaN"}

\* {"score": s, "confidence": .., "rationale": .., "sentiment": {..}}
Judgment(s, d) ==
    JsValue("object", AllKeys, "number", s, "object", "object", d)

\* the scores and sentiment distributions a scoring model answers with
Distributions ==
    { [positive |-> 80, neutral |-> 10, negative |-> 5, strongly_positive |-> 5],
      [positive |-> 10, neutral |-> 20, negative |-> 70, strongly_positive |-> 0] }

mostlyPositive ==
    [positive |-> 80, neutral |-> 10, negative |-> 5, strongly_positive |-> 5]

\* objects that parse but are incomplete or ill-typed
BrokenJudgments ==
    { \* {"score": 40, "confidence": 90}
      JsValue("object", {"score", "confidence"}, "number", 40, "undefined",
              "absent", zeroDistribution),
      \* "score": "85"
      JsValue("object", AllKeys, "string", 0, "object", "object",
              zeroDistribution),
      \* "sentiment": null
      JsValue("object", AllKeys, "number", 40, "null", "absent",
              zeroDistribution),
      \* "sentiment": "positive"
      JsValue("object", AllKeys, "number", 40, "string", "absent",
              zeroDistribution) }

\* "sentiment": {"overall": "neutral", "confidence": 50}, no distribution;
\* and "sentiment": {"distribution": null}
SparseJudgments ==
    { JsValue("object", AllKeys, "number", 40, "object", "absent",
              zeroDistribution),
      JsValue("object", AllKeys, "number", 40, "object", "null",
              zeroDistribution) }

\* --------------------------------------------------------------------------
\* The text a scoring call answers with, by what the extraction sees in it
\* --------------------------------------------------------------------------
\*   empty   ""
\*   prose   no {...} or [...] span that parses, with or without quote fix
\*   strict  after the repair steps JSON.parse accepts the text
\*   single  JSON.parse accepts the text only after ' is replaced by "
ScoringText(kind, parsed) == [kind |-> kind, parsed |-> parsed]

ScoringTexts ==
    { ScoringText("empty", jsNull), ScoringText("prose", jsNull) }
    \cup { ScoringText("strict", j) :
              j \in {jsNull, jsNumber, jsArray} \cup BrokenJudgments
                    \cup SparseJudgments
                    \cup { Judgment(s, mostlyPositive) : s \in {0, 40, 100} }
                    \cup { Judgment(40, d) : d \in Distributions } }
    \cup { ScoringText("single", Judgment(40, d)) : d \in Distributions }

\* AIService.extractAndParseJSON
extractAndParseJSON(response) ==
    IF response.kind = "empty"
    THEN Throw(<<"Invalid response: empty or non-string">>, jsNull)
    ELSE IF response.kind = "strict"
    THEN \* strategy 5; a non-object throws into the same catch, whose
         \* strategy 6 parses the text again and returns it unchecked
         Return(response.parsed)
    ELSE IF response.kind = "single"
    THEN Return(response.parsed)
    ELSE Throw(<<"JSON parsing failed after multiple strategies.">>, jsNull)

\* requiredFields.filter(field => !(field in parsed))
missingFields(parsed) ==
    LET Missing(f) == f \notin parsed.keys IN SelectSeq(requiredFields, Missing)

\* Object.keys(parsed), as far as the required fields go
availableFields(parsed) ==
    LET Present(f) == f \in parsed.keys IN SelectSeq(requiredFields, Present)

\* names.join(", ")
joinNames(names) == join([i \in 1..Len(names) |-> <<names[i]>>], ", ")

\* validateParsedResponse with a sentiment check that tests the type only,
\* so that "sentiment": null passes
validateParsedResponseTypeofOnly(parsed) ==
    IF parsed.jtype \notin {"object", "array"}
    THEN Throw(<<"Cannot use 'in' operator to search for 'score'">>, FALSE)
    ELSE IF Len(missingFields(parsed)) > 0
    THEN Throw(<<"Missing required fields in AI response: ">>
               \o joinNames(missingFields(parsed))
               \o <<"\nAvailable fields: ">>
               \o joinNames(availableFields(parsed)), FALSE)
    ELSE IF jsTypeof(parsed.scoreType) # "number" \/ jsIsNaN(parsed.scoreType)
    THEN Throw(<<"Invalid score value: ", parsed.scoreType,
                 " (expected number)">>, FALSE)
    ELSE IF jsTypeof(parsed.sentKind) # "object"
    THEN Throw(<<"Invalid or missing sentiment object">>, FALSE)
    ELSE Return(TRUE)

\* AIService.validateParsedResponse
validateParsedResponse(parsed) ==
    IF parsed.jtype \notin {"object", "array"}
    THEN \* the "in" operator applied to a non-object
         Throw(<<"Cannot use 'in' operator to search for 'score'">>, FALSE)
    ELSE IF Len(missingFields(parsed)) > 0
    THEN Throw(<<"Missing required fields in AI response: ">>
               \o joinNames(missingFields(parsed))
               \o <<"\nAvailable fields: ">>
               \o joinNames(availableFields(parsed)), FALSE)
    ELSE IF jsTypeof(parsed.scoreType) # "number" \/ jsIsNaN(parsed.scoreType)
    THEN Throw(<<"Invalid score value: ", parsed.scoreType,
                 " (expected number)">>, FALSE)
    ELSE IF ~jsTruthy(parsed.sentKind) \/ jsTypeof(parsed.sentKind) # "object"
    THEN Throw(<<"Invalid or missing sentiment object">>, FALSE)
    ELSE Return(TRUE)

\* --------------------------------------------------------------------------
\* AIService.extractAndParseJSON on the characters of the response
\* --------------------------------------------------------------------------
\* The extraction above works on what a text amounts to; here it is taken
\* step by step on the text itself.  A text is a tuple of tokens: the code
\* fences (three backticks, written "fence", and three backticks followed
\* by json, written "fence-json"), the white space " " and "\n", the
\* punctuation { } [ ] , : " ' // /* */ and words.  Backslash escapes and
\* duplicate keys do not occur in the texts.
isSpace(t) == t \in {" ", "\n"}

RECURSIVE trimStart(_)
trimStart(text) ==
    IF text # <<>> /\ isSpace(Head(text)) THEN trimStart(Tail(text)) ELSE text

RECURSIVE trimEnd(_)
trimEnd(text) ==
    IF text # <<>> /\ isSpace(text[Len(text)])
    THEN trimEnd(SubSeq(text, 1, Len(text) - 1))
    ELSE text

\* response.trim()
trim(text) == trimEnd(trimStart(text))

\* the position of the first token t at or after position i, or 0
firstIndexOf(text, t, i) ==
    LET S == { j \in i..Len(text) : text[j] = t }
    IN  IF S = {} THEN 0 ELSE CHOOSE j \in S : \A k \in S : j <= k

\* the position of the last token t after position i, or 0
lastIndexOf(text, t, i) ==
    LET S == { j \in (i + 1)..Len(text) : text[j] = t }
    IN  IF S = {} THEN 0 ELSE CHOOSE j \in S : \A k \in S : k <= j

\* strategy 1: an opening fence, with or without json, and the white space
\* after it are removed from the start of the text
stripOpeningFence(text) ==
    IF text # <<>> /\ Head(text) \in {"fence-json", "fence"}
    THEN trimStart(Tail(text))
    ELSE text

\* strategy 1: a closing fence followed by white space only is removed from
\* the end of the text
stripClosingFence(text) ==
    LET body == trimEnd(text)
    IN  IF body # <<>> /\ body[Len(body)] = "fence"
        THEN SubSeq(body, 1, Len(body) - 1)
        ELSE text

\* the positions at which /(\{[\s\S]*\}|\[[\s\S]*\])/ matches
matchStarts(text) ==
    { i \in 1..Len(text) :
        \/ text[i] = "{" /\ lastIndexOf(text, "}", i) > 0
        \/ text[i] = "[" /\ lastIndexOf(text, "]", i) > 0 }

\* strategy 2: the leftmost match, which runs to the last closing token
jsonMatch(text) ==
    IF matchStarts(text) = {} THEN text
    ELSE LET i == CHOOSE j \in matchStarts(text) :
                      \A k \in matchStarts(text) : j <= k
             close == IF text[i] = "{" THEN "}" ELSE "]"
         IN  SubSeq(text, i, lastIndexOf(text, close, i))

\* strategy 3: cleaned.replace(/,(\s*[}\]])/g, "$1")
RECURSIVE removeTrailingCommas(_)
removeTrailingCommas(text) ==
    IF text = <<>> THEN <<>>
    ELSE LET rest == trimStart(Tail(text))
         IN  IF Head(text) = "," /\ rest # <<>> /\ Head(rest) \in {"}", "]"}
             THEN removeTrailingCommas(Tail(text))
             ELSE <<Head(text)>> \o removeTrailingCommas(Tail(text))

\* strategy 4: cleaned.replace(/\/\*[\s\S]*?\*\//g, "")
RECURSIVE removeBlockComments(_)
removeBlockComments(text) ==
    LET open == firstIndexOf(text, "/*", 1)
        close == IF open = 0 THEN 0 ELSE firstIndexOf(text, "*/", open + 1)
    IN  IF close = 0 THEN text
        ELSE SubSeq(text, 1, open - 1)
             \o removeBlockComments(SubSeq(text, close + 1, Len(text)))

\* strategy 4: cleaned.replace(/\/\/.*/g, "")
RECURSIVE removeLineComments(_)
removeLineComments(text) ==
    LET start == firstIndexOf(text, "//", 1)
        nl == IF start = 0 THEN 0 ELSE firstIndexOf(text, "\n", start + 1)
    IN  IF start = 0 THEN text
        ELSE IF nl = 0 THEN SubSeq(text, 1, start - 1)
        ELSE SubSeq(text, 1, start - 1)
             \o removeLineComments(SubSeq(text, nl, Len(text)))

\* strategies 1 to 4, in the order of the code
cleanResponse(text) ==
    removeLineComments(removeBlockComments(removeTrailingCommas(
        jsonMatch(stripClosingFence(stripOpeningFence(trim(text)))))))

\* JSON.parse, lexical level.  A string runs from a double quote to the next
\* one and may not hold a line break; a word is a number, a literal or an
\* error.
Lexeme(k, s) == [k |-> k, s |-> s]

RECURSIVE lex(_)
lex(text) ==
    IF text = <<>> THEN <<>>
    ELSE IF isSpace(Head(text)) THEN lex(Tail(text))
    ELSE IF Head(text) = "\""
    THEN LET close == firstIndexOf(text, "\"", 2)
         IN  IF close = 0 \/ firstIndexOf(SubSeq(text, 1, close), "\n", 1) > 0
             THEN <<Lexeme("bad", <<Head(text)>>)>>
             ELSE <<Lexeme("str", SubSeq(text, 2, close - 1))>>
                  \o lex(SubSeq(text, close + 1, Len(text)))
    ELSE <<Lexeme(IF Head(text) \in {"{", "}", "[", "]", ",", ":"} THEN "punct"
                  ELSE IF Head(text) \in {"0", "1", "2", "42", "85", "90"}
                  THEN "num"
                  ELSE IF Head(text) \in {"null", "true", "false"} THEN "lit"
                  ELSE "bad",
                  <<Head(text)>>)>>
         \o lex(Tail(text))

\* JSON.parse, grammar: the lexemes from position i on continue a JSON text
\* in which the containers of the stack are open and the parser is about to
\* read a value (val), the first element of an array or its end (elem), the
\* first key of an object or its end (first), a key (key), a colon (colon),
\* or what follows a value (after).
RECURSIVE accepts(_, _, _, _)
accepts(lx, i, stack, mode) ==
    IF i > Len(lx) THEN mode = "after" /\ stack = <<>>
    ELSE LET t == lx[i]
             isP(c) == t.k = "punct" /\ t.s = <<c>>
             top == IF stack = <<>> THEN "" ELSE stack[Len(stack)]
             pop == SubSeq(stack, 1, Len(stack) - 1)
         IN  CASE mode \in {"val", "elem"} ->
                    IF t.k \in {"str", "num", "lit"}
                    THEN accepts(lx, i + 1, stack, "after")
                    ELSE IF isP("{")
                    THEN accepts(lx, i + 1, Append(stack, "{"), "first")
                    ELSE IF isP("[")
                    THEN accepts(lx, i + 1, Append(stack, "["), "elem")
                    ELSE IF mode = "elem" /\ isP("]")
                    THEN accepts(lx, i + 1, pop, "after")
                    ELSE FALSE
               [] mode \in {"first", "key"} ->
                    IF t.k = "str" THEN accepts(lx, i + 1, stack, "colon")
                    ELSE IF mode = "first" /\ isP("}")
                    THEN accepts(lx, i + 1, pop, "after")
                    ELSE FALSE
               [] mode = "colon" ->
                    isP(":") /\ accepts(lx, i + 1, stack, "val")
               [] mode = "after" ->
                    IF top = "{" /\ isP(",")
                    THEN accepts(lx, i + 1, stack, "key")
                    ELSE IF top = "[" /\ isP(",")
                    THEN accepts(lx, i + 1, stack, "val")
                    ELSE IF (top = "{" /\ isP("}")) \/ (top = "[" /\ isP("]"))
                    THEN accepts(lx, i + 1, pop, "after")
                    ELSE FALSE

\* JSON.parse: the value, given by its lexemes, or a SyntaxError
JSONparse(text) ==
    LET lx == lex(text)
    IN  IF (\A i \in 1..Len(lx) : lx[i].k # "bad") /\ accepts(lx, 1, <<>>, "val")
        THEN [ok |-> TRUE, value |-> lx]
        ELSE [ok |-> FALSE, value |-> <<>>]

\* what kind of value JSON.parse returned
jsonTypeOf(value) ==
    LET t == value[1]
    IN  CASE t.k = "punct" /\ t.s = <<"{">> -> "object"
          [] t.k = "punct" /\ t.s = <<"[">> -> "array"
          [] t.k = "str" -> "string"
          [] t.k = "num" -> "number"
          [] t.k = "lit" /\ t.s = <<"null">> -> "null"
          [] OTHER -> "boolean"

\* !parsed is false
jsonTruthy(value) ==
    LET t == value[1]
    IN  ~ \/ t.k = "lit" /\ t.s \in {<<"null">>, <<"false">>}
          \/ t.k = "num" /\ t.s = <<"0">>
          \/ t.k = "str" /\ t.s = <<>>

\* cleaned.replace(/'/g, '"')
replaceQuotes(text) ==
    [i \in 1..Len(text) |-> IF text[i] = "'" THEN "\"" ELSE text[i]]

\* a response as the caller passes it: a string, or a value of another type
Response(isString, text) == [isString |-> isString, text |-> text]

\* AIService.extractAndParseJSON, step by step
extractAndParseJSONText(response) ==
    IF ~response.isString \/ response.text = <<>>
    THEN Throw(<<"Invalid response: empty or non-string">>, <<>>)
    ELSE LET cleaned == cleanResponse(response.text)
             strict == JSONparse(cleaned)
             retry == JSONparse(replaceQuotes(cleaned))
         IN  IF /\ strict.ok
                /\ jsonTruthy(strict.value)
                /\ jsonTypeOf(strict.value) \in {"object", "array"}
             THEN \* strategy 5
                  Return(strict.value)
             ELSE IF retry.ok
             THEN \* strategy 6: returned without a check of its type
                  Return(retry.value)
             ELSE Throw(<<"JSON parsing failed after multiple strategies.">>,
                        <<>>)

\* the texts a scoring model answers with: a judgment, whose rationale is
\* plain, holds a URL or holds an apostrophe, with or without a list of
\* competitors
quoted(s) == <<"\"">> \o s \o <<"\"">>
member(key, value) == quoted(<<key>>) \o <<":">> \o value

Rationales ==
    { <<"good", " ", "fit">>,
      <<"see", " ", "https:", "//", "acme.com">>,
      <<"the", " ", "brand", "'", "s", " ", "lead">> }

\* rationales whose text looks like something the repair steps remove: a
\* block comment, a comma before a closing brace, a pair of braces
MarkedRationales ==
    { <<"fit", " ", "/*", "for", " ", "smb", "*/", " ", "only">>,
      <<"plans", " ", "(", "a", ",", "}", " ", "b", ")">>,
      <<"uses", " ", "{", "name", "}", " ", "tags">> }

CompetitorLists ==
    { <<>>,
      <<",">> \o member("competitors_mentioned",
                        <<"[">> \o quoted(<<"Globex">>) \o <<"]">>) }

JudgmentText(rationale, competitors) ==
    <<"{">> \o member("score", <<"85">>)
    \o <<",">> \o member("confidence", <<"90">>)
    \o <<",">> \o member("rationale", quoted(rationale))
    \o <<",">> \o member("sentiment",
                         <<"{">> \o member("overall", quoted(<<"neutral">>))
                         \o <<"}">>)
    \o competitors \o <<"}">>

\* the ways a model dresses the JSON text up
fence(text) == <<"fence-json", "\n">> \o text \o <<"\n", "fence">>
proseBefore == <<"Here", " ", "is", " ", "the", " ", "analysis", ":", "\n">>
proseAfter == <<"\n", "Hope", " ", "this", " ", "helps", ".">>

styled(style, text) ==
    CASE style = "plain" -> text
      [] style = "fenced" -> fence(text)
      [] style = "prose-fenced" -> proseBefore \o fence(text)
      [] style = "note-fenced" ->
             <<"[", "Note", "]", " ", "scores", " ", "follow", "\n">>
             \o fence(text)
      [] style = "fenced-prose" -> fence(text) \o proseAfter
      [] style = "prose-fenced-prose" ->
             proseBefore \o fence(text) \o proseAfter
      [] style = "trailing-comma" ->
             SubSeq(text, 1, Len(text) - 1) \o <<",", "\n", "}">>
      [] style = "single-quoted" ->
             [i \in 1..Len(text) |-> IF text[i] = "\"" THEN "'" ELSE text[i]]

\* the other things a scoring call can hand over: nothing, a non-string,
\* white space, prose, a bare value, an array
OtherResponses ==
    { Response(TRUE, <<>>),
      Response(FALSE, <<>>),
      Response(FALSE, <<"42">>),
      Response(TRUE, <<" ", "\n">>),
      Response(TRUE, <<"I", " ", "cannot", " ", "score", " ", "this", ".">>),
      Response(TRUE, <<"It", "'", "s", " ", "unclear", ".">>),
      Response(TRUE, <<"use", " ", "{", "curly", "}", " ", "braces">>),
      Response(TRUE, <<"85">>),
      Response(TRUE, <<"0">>),
      Response(TRUE, <<"null">>),
      Response(TRUE, <<"true">>),
      Response(TRUE, quoted(<<"positive">>)),
      Response(TRUE, <<"'", "positive", "'">>),
      Response(TRUE, <<"[", "1", ",", "2", "]">>),
      Response(TRUE, <<"[", "]">>),
      Response(TRUE, fence(<<"[">> \o quoted(<<"Globex">>) \o <<",", "]">>)) }

\* --------------------------------------------------------------------------
\* PromptService.replacePromptPlaceholders
\* --------------------------------------------------------------------------
\* IBrand values: a string field is a tuple of fragments, a list field is a
\* sequence of such strings; a missing field is <<>>.
Brands ==
    { [name |-> <<"Acme">>, category |-> <<"CRM">>, region |-> <<"Europe">>,
       target_audience |-> << <<"startups">>, <<"agencies">> >>,
       use_case |-> <<"sales">>, competitors |-> << <<"Globex">> >>,
       feature_list |-> << <<"email">>, <<"reports">>, <<"api">> >>],
      [name |-> <<>>, category |-> <<>>, region |-> <<>>,
       target_audience |-> <<>>, use_case |-> <<>>, competitors |-> <<>>,
       feature_list |-> <<>>] }

\* a || b on strings
orElse(a, b) == IF Len(a) > 0 THEN a ELSE b

\* the placeholder table, in insertion order
placeholders(b) ==
    << <<"{brand_name}", orElse(b.name, <<"Unknown Brand">>)>>,
       <<"{name}", orElse(b.name, <<"Unknown Brand">>)>>,
       <<"{category}", orElse(b.category, <<"business services">>)>>,
       <<"{region}", orElse(b.region, <<"your region">>)>>,
       <<"{audience}", orElse(join(b.target_audience, ", "), <<"businesses">>)>>,
       <<"{use_case}", orElse(b.use_case, <<"general business needs">>)>>,
       <<"{competitor}",
         orElse(IF Len(b.competitors) > 0 THEN b.competitors[1] ELSE <<>>,
                <<"industry leaders">>)>>,
       <<"{feature_list}",
         orElse(join(SubSeq(b.feature_list, 1,
                            IF Len(b.feature_list) < 2
                            THEN Len(b.feature_list) ELSE 2), " and "),
                <<"core services and features">>)>> >>

\* String.prototype.replace with a replacement string: what one match is
\* replaced by.  In val, $$ stands for a dollar sign, $& for the matched
\* text, dollar-backtick (the fragment "$<") for the text before the match
\* and dollar-apostrophe (the fragment "$>") for the text after it.
RECURSIVE expandReplacement(_, _, _, _)
expandReplacement(val, matched, before, after) ==
    IF val = <<>> THEN <<>>
    ELSE (CASE Head(val) = "$$" -> <<"$">>
            [] Head(val) = "$&" -> <<matched>>
            [] Head(val) = "$<" -> before
            [] Head(val) = "$>" -> after
            [] OTHER -> <<Head(val)>>)
         \o expandReplacement(Tail(val), matched, before, after)

\* the matches of the key from fragment i of the text on
RECURSIVE replaceFrom(_, _, _, _)
replaceFrom(text, i, key, val) ==
    IF i > Len(text) THEN <<>>
    ELSE (IF text[i] = key
          THEN expandReplacement(val, key, SubSeq(text, 1, i - 1),
                                 SubSeq(text, i + 1, Len(text)))
          ELSE <<text[i]>>)
         \o replaceFrom(text, i + 1, key, val)

\* text.replace(new RegExp(escaped key, "g"), val)
replaceAll(text, key, val) == replaceFrom(text, 1, key, val)

RECURSIVE replaceEach(_, _)
replaceEach(text, table) ==
    IF table = <<>> THEN text
    ELSE replaceEach(replaceAll(text, table[1][1], table[1][2]), Tail(table))

replacePromptPlaceholders(promptText, b) ==
    replaceEach(promptText, placeholders(b))

\* the prompt templates a CSV row can hold
Templates ==
    { <<"Best ", "{category}", " tools in ", "{region}", "?">>,
      <<"Is ", "{brand_name}", " better than ", "{competitor}", " for ",
        "{use_case}", "?">>,
      <<"{name}", " for ", "{audience}", ": ", "{feature_list}", " in ",
        "{region}", " and ", "{region}">>,
      <<"Which tools do experts recommend?">> }

\* the brand profiles a user can store: every field present or missing, and
\* free text that holds a dollar pattern or the text of a placeholder
BrandProfiles ==
    { [name |-> n, category |-> c, region |-> r, target_audience |-> a,
       use_case |-> u, competitors |-> k, feature_list |-> f] :
        n \in {<<>>, <<"Acme">>},
        c \in {<<>>, <<"CRM">>, <<"{name}">>},
        r \in {<<>>, <<"Europe">>, <<"$&">>},
        a \in {<<>>, << <<"startups">>, <<"agencies">> >>},
        u \in {<<>>, <<"sales">>},
        k \in {<<>>, << <<"Globex">> >>},
        f \in {<<>>, << <<"email">>, <<"reports">>, <<"api">> >>} }

\* --------------------------------------------------------------------------
\* AIService.parseAIResponse and AIService.analyzeBrand
\* --------------------------------------------------------------------------
\* what a primary LLM call answers with, and the times a call can take
ResponseTimes == {2}

noResponse == [response |-> <<>>, responseTime |-> 0]

\* parseAIResponse, the structured response built from the scoring JSON
baseResponse(scoringJson) ==
    [score |-> scoringJson.score,
     position_weighted_score |-> scoringJson.score,
     analysis |-> scoringJson.rationale,
     sentiment |-> [distKind |-> scoringJson.distKind,
                    distribution |-> scoringJson.distribution],
     status |-> "success"]

\* parseAIResponse with the catch of the older service: a failure yields a
\* default response instead of an exception
parseAIResponseDefaulting(scoringCall) ==
    LET extracted == extractAndParseJSON(scoringCall.val)
        validated == validateParsedResponse(extracted.val)
        failure == IF scoringCall.thrown THEN scoringCall
                   ELSE IF extracted.thrown THEN extracted
                   ELSE validated
    IN  IF failure.thrown
        THEN Return(baseResponse(Judgment(0, zeroDistribution)))
        ELSE Return(baseResponse(extracted.val))

\* parseAIResponse from the completion of its callChatGPT scoring call on
parseAIResponse(scoringCall) ==
    LET extracted == extractAndParseJSON(scoringCall.val)
        validated == validateParsedResponse(extracted.val)
        failure == IF scoringCall.thrown THEN scoringCall
                   ELSE IF extracted.thrown THEN extracted
                   ELSE validated
    IN  IF failure.thrown
        THEN Throw(<<"Failed to parse AI response: ">> \o errorMessage(failure),
                   FALSE)
        ELSE Return(baseResponse(extracted.val))

\* what the response shows about the brand, in the vocabulary of the stage:
\* rank (TOFU), tone (MOFU), intent (BOFU), sentiment (EVFU)
Outcomes(s) ==
    CASE s = "TOFU" -> {"first", "second", "third", "fourth", "fifth", "absent"}
      [] s = "MOFU" -> {"positive", "conditional", "neutral", "negative",
                        "absent"}
      [] s = "BOFU" -> {"yes", "partial", "unclear", "no", "absent"}
      [] s = "EVFU" -> {"recommend", "caveat", "neutral", "negative", "absent"}

\* a scale that a weights configuration leaves out: weights.x || {}
noScale == [v \in {} |-> 0]

\* StageSpecificWeights of the older service, scale values in hundredths:
\* no weights at all, a configuration whose scales stop at the lowest named
\* outcome, and one that also gives absent and partial a value
WeightConfigs ==
    { [position_weights |-> noScale, mofu_scale |-> noScale,
       bofu_scale |-> noScale, evfu_scale |-> noScale, base_weight |-> 0],
      [position_weights |->
           [v \in {"first", "second", "third"} |->
               IF v = "first" THEN 100 ELSE IF v = "second" THEN 80 ELSE 60],
       mofu_scale |->
           [v \in {"positive", "conditional"} |->
               IF v = "positive" THEN 100 ELSE 50],
       bofu_scale |->
           [v \in {"yes", "partial"} |-> IF v = "yes" THEN 100 ELSE 50],
       evfu_scale |->
           [v \in {"recommend", "caveat"} |->
               IF v = "recommend" THEN 100 ELSE 50],
       base_weight |-> 1],
      [position_weights |->
           [v \in {"first", "absent"} |-> IF v = "first" THEN 100 ELSE 5],
       mofu_scale |->
           [v \in {"positive", "absent"} |-> IF v = "positive" THEN 100 ELSE 5],
       bofu_scale |->
           [v \in {"yes", "partial", "absent"} |->
               IF v = "yes" THEN 100 ELSE IF v = "partial" THEN 80 ELSE 5],
       evfu_scale |->
           [v \in {"recommend", "absent"} |->
               IF v = "recommend" THEN 100 ELSE 5],
       base_weight |-> 2] }

\* weights?.base_weight || 1
baseWeightOf(weights) ==
    IF weights.base_weight = 0 THEN 1 ELSE weights.base_weight

\* AIService.computeStageSpecificScore of the older service
computeStageSpecificScore(s, value, weights, baseWeight) ==
    LET stageMap == CASE s = "TOFU" -> weights.position_weights
                      [] s = "MOFU" -> weights.mofu_scale
                      [] s = "BOFU" -> weights.bofu_scale
                      [] s = "EVFU" -> weights.evfu_scale
        rawScore == IF value \in DOMAIN stageMap THEN stageMap[value] ELSE 0
    IN  [rawScore |-> rawScore, weightedScore |-> rawScore * baseWeight]

\* analyzeBrand, success return
analyzeBrandSuccess(ai, parsedData) ==
    Return([score |-> parsedData.score,
            position_weighted_score |-> parsedData.position_weighted_score,
            response |-> ai.response,
            responseTime |-> ai.responseTime,
            sentiment |-> parsedData.sentiment,
            analysis |-> parsedData.analysis,
            status |-> "success"])

\* analyzeBrand with a catch that handles Error instances only and re-throws
\* any other rejection reason
analyzeBrandCatchErrorsOnly(error, elapsed) ==
    IF error.isError
    THEN Return([score |-> 0,
                 position_weighted_score |-> 0,
                 response |-> <<"Analysis failed: ">> \o error.msg,
                 responseTime |-> elapsed,
                 sentiment |-> [distKind |-> "object",
                                distribution |-> zeroDistribution],
                 analysis |-> <<"Analysis failed due to error: ">>
                              \o error.msg,
                 status |-> "error"])
    ELSE ThrowValue(FALSE)

\* analyzeBrand, catch branch
analyzeBrandCatch(error, elapsed) ==
    Return([score |-> 0,
            position_weighted_score |-> 0,
            response |-> <<"Analysis failed: ">> \o errorMessage(error),
            responseTime |-> elapsed,
            sentiment |-> [distKind |-> "object",
                           distribution |-> zeroDistribution],
            analysis |-> <<"Analysis failed due to error: ">>
                         \o errorMessage(error),
            status |-> "error"])

\* analyzeBrand from the completion of parseAIResponse on
analyzeBrandParsed(ai, parsed, elapsed) ==
    IF parsed.thrown THEN analyzeBrandCatch(parsed, elapsed)
    ELSE analyzeBrandSuccess(ai, parsed.val)

\* switch (model) default branch
unsupportedModel(m) == Throw(<<"Unsupported AI model: ", m>>, FALSE)

\* --------------------------------------------------------------------------
\* AIService.analyzeWithMultiplePrompts
\* --------------------------------------------------------------------------
noOutcome ==
    [kind |-> "none", msg |-> <<>>, overallScore |-> <<0, 0>>,
     weightedScore |-> <<0, 0>>, promptResults |-> <<>>,
     aggregatedSentiment |-> [overall |-> "neutral", confidence |-> 0,
                              distribution |-> zeroDistribution],
     totalResponseTime |-> 0, successRate |-> <<0, 0>>]

\* the outer catch: log and re-throw
outerCatch(error) ==
    [noOutcome EXCEPT
        !.kind = "thrown",
        !.msg = <<"Failed to complete multi-prompt analysis: ">>
                \o errorMessage(error)]

\* the entry pushed on promptResults for one analysed prompt
promptResult(prompt, processedPromptText, r) ==
    [promptId |-> prompt.prompt_id,
     promptText |-> processedPromptText,
     score |-> r.score,
     weightedScore |-> r.position_weighted_score,
     response |-> IF r.status = "success"
                  THEN <<"Response: ">> \o r.response
                       \o <<" Recommendation: ">> \o r.analysis
                  ELSE r.response,
     responseTime |-> r.responseTime,
     sentiment |-> r.sentiment,
     status |-> r.status]

\* sentimentScores[key] += analysisResult.sentiment.distribution[key]
addSentiment(sums, d) ==
    [positive |-> sums.positive + d.positive,
     neutral |-> sums.neutral + d.neutral,
     negative |-> sums.negative + d.negative,
     strongly_positive |-> sums.strongly_positive + d.strongly_positive]

\* promptResults.filter(success).reduce((sum, r) => sum + r.score, 0)
RECURSIVE sumSuccessScores(_)
sumSuccessScores(results) ==
    IF results = <<>> THEN 0
    ELSE (IF Head(results).status = "success" THEN Head(results).score ELSE 0)
         + sumSuccessScores(Tail(results))

\* a / b, and null when the guard of the conditional fails
ratioOrNull(guard, a, b) == IF guard > 0 THEN <<a, b>> ELSE <<0, 0>>

\* x || 0 on a number or null
orZero(x) == IF x[1] = 0 THEN <<0, 1>> ELSE x

\* Math.round(a / b * 100) for a >= 0, b > 0
roundPercent(a, b) == (200 * a + b) \div (2 * b)

\* Math.max(...Object.values(sentimentScores))
maxSentiment(sums) ==
    CHOOSE v \in { sums[k] : k \in SentimentKeys } :
        \A k \in SentimentKeys : sums[k] <= v

\* overallScore averaged over all prompt results instead of the successes
overallScoreOverAll(results, successful) ==
    ratioOrNull(successful, sumSuccessScores(results), Len(results))

\* overallScore
overallScoreOf(results, successful) ==
    ratioOrNull(successful, sumSuccessScores(results), successful)

\* successRate as a fraction instead of a percentage
successRateFraction(successful, total) == <<successful, total>>

\* successRate = (successfulPrompts / stagePrompts.length) * 100
successRateOf(successful, total) == <<successful * 100, total>>

\* weightedScore as the sum of the weighted scores instead of their mean
weightedScoreSum(total, weightSum) == ratioOrNull(weightSum, total, 1)

\* weightedScore = totalWeightSum > 0 ? totalWeightedScore / totalWeightSum
\*                                    : null
weightedScoreOf(total, weightSum) == ratioOrNull(weightSum, total, weightSum)

\* the aggregated sentiment of the successful prompts
aggregateSentiment(sums, successful) ==
    LET total == sums.positive + sums.neutral + sums.negative
                 + sums.strongly_positive
    IN  IF successful > 0
        THEN [overall |-> IF sums.positive > sums.negative THEN "positive"
                          ELSE IF sums.negative > sums.positive THEN "negative"
                          ELSE "neutral",
              confidence |-> roundPercent(maxSentiment(sums), successful),
              distribution |->
                  IF total > 0
                  THEN [k \in SentimentKeys |-> roundPercent(sums[k], total)]
                  ELSE zeroDistribution]
        ELSE noOutcome.aggregatedSentiment

\* all prompts failed: successfulPrompts === 0
allFailed(successful) == successful = 0

\* the code after the prompt loop: final metrics, all-failed check, return
finalMetrics ==
    IF allFailed(successfulPrompts)
    THEN outerCatch(Throw(<<"All ", ToString(Len(stagePrompts)),
                            " prompts failed">>, FALSE))
    ELSE [kind |-> "returned", msg |-> <<>>,
          overallScore |->
              orZero(overallScoreOf(promptResults, successfulPrompts)),
          weightedScore |->
              orZero(weightedScoreOf(totalWeightedScore, totalWeightSum)),
          promptResults |-> promptResults,
          aggregatedSentiment |->
              aggregateSentiment(sentimentScores, successfulPrompts),
          totalResponseTime |-> totalResponseTime,
          successRate |->
              successRateOf(successfulPrompts, Len(stagePrompts))]

\* The loop body after analyzeBrand's promise settles with completion c for
\* prompt i: push the result, aggregate a success, then start the 500 ms
\* delay; an exception (from analyzeBrand or from the aggregation) leaves the
\* loop through the outer catch.  inp records what the prompt met.
AfterAnalyzeBrand(i, c, inp) ==
    LET prompt == stagePrompts[i]
        text == replacePromptPlaceholders(prompt.prompt_text, brandData)
        r == c.val
        entry == promptResult(prompt, text, r)
    IN
    /\ idx' = i
    /\ aiResponse' = noResponse
    /\ inputs' = Append(inputs, inp)
    /\ UNCHANGED stagePrompts
    /\ IF c.thrown
       THEN /\ abThrows' = abThrows + 1
            /\ abReturns' = abReturns
            /\ pc' = "failed"
            /\ outcome' = outerCatch(c)
            /\ UNCHANGED <<promptResults, totalResponseTime, successfulPrompts,
                           totalWeightedScore, totalWeightSum, sentimentScores>>
       ELSE /\ abReturns' = abReturns + 1
            /\ abThrows' = abThrows
            /\ promptResults' = Append(promptResults, entry)
            /\ IF r.status = "success"
               THEN IF r.sentiment.distKind # "object"
                    THEN \* reading a property of undefined / null
                         /\ pc' = "failed"
                         /\ outcome' = outerCatch(Throw(
                                <<"Cannot read properties of undefined">>,
                                FALSE))
                         /\ successfulPrompts' = successfulPrompts + 1
                         /\ totalWeightedScore' =
                                totalWeightedScore + r.position_weighted_score
                         /\ totalWeightSum' = totalWeightSum + 1
                         /\ UNCHANGED <<sentimentScores, totalResponseTime>>
                    ELSE /\ pc' = "delay"
                         /\ outcome' = outcome
                         /\ successfulPrompts' = successfulPrompts + 1
                         /\ totalWeightedScore' =
                                totalWeightedScore + r.position_weighted_score
                         /\ totalWeightSum' = totalWeightSum + 1
                         /\ sentimentScores' =
                                addSentiment(sentimentScores,
                                             r.sentiment.distribution)
                         /\ totalResponseTime' =
                                totalResponseTime + r.responseTime
               ELSE /\ pc' = "delay"
                    /\ outcome' = outcome
                    /\ totalResponseTime' = totalResponseTime + r.responseTime
                    /\ UNCHANGED <<successfulPrompts, totalWeightedScore,
                                   totalWeightSum, sentimentScores>>

\* what one prompt met on its way through analyzeBrand
Met(supported, primaryOk, scoringOk, text) ==
    [supported |-> supported, primaryOk |-> primaryOk,
     scoringOk |-> scoringOk, text |-> text]

noText == ScoringText("empty", jsNull)

\* Iteration i with analyzeBrand not awaited: the loop goes on to the next
\* prompt while the call of this one is outstanding
EnterPromptNoAwait(i) ==
    LET last == IF i < Len(stagePrompts) THEN i + 1 ELSE i IN
    /\ abCalls' = abCalls + (last - i + 1)
    /\ analyzed' = analyzed
                   \o [k \in 1..(last - i + 1) |->
                          stagePrompts[i + k - 1].prompt_id]
    /\ pc' = "primary"
    /\ idx' = i
    /\ inFlight' = inFlight \cup { <<k, "primary">> : k \in i..last }
    /\ callLog' = callLog
                  \o [k \in 1..(last - i + 1) |->
                         <<"start", i + k - 1, "primary">>]
    /\ UNCHANGED <<stagePrompts, promptResults, totalResponseTime,
                   successfulPrompts, totalWeightedScore, totalWeightSum,
                   sentimentScores, aiResponse, outcome, abReturns, abThrows,
                   inputs>>

\* Iteration i of the prompt loop up to its first await: the placeholders
\* are replaced and analyzeBrand is invoked, which starts the primary LLM
\* call of the model, or fails at once on an unsupported model.
EnterPrompt(i) ==
    /\ abCalls' = abCalls + 1
    /\ analyzed' = Append(analyzed, stagePrompts[i].prompt_id)
    /\ IF model \in SupportedModels
       THEN /\ pc' = "primary"
            /\ idx' = i
            /\ inFlight' = inFlight \cup {<<i, "primary">>}
            /\ callLog' = Append(callLog, <<"start", i, "primary">>)
            /\ UNCHANGED <<stagePrompts, promptResults, totalResponseTime,
                           successfulPrompts, totalWeightedScore,
                           totalWeightSum, sentimentScores, aiResponse,
                           outcome, abReturns, abThrows, inputs>>
       ELSE /\ \E elapsed \in ResponseTimes :
                AfterAnalyzeBrand(i,
                    analyzeBrandCatch(unsupportedModel(model), elapsed),
                    Met(FALSE, FALSE, FALSE, noText))
            /\ UNCHANGED <<inFlight, callLog>>

\* analyzeWithMultiplePrompts(brandData, model, stage) is invoked for one
\* (model, stage) pair of the brand under analysis: it calls
\* getPromptsByStage, whose loadPrompts answers from the cache or starts
\* reading the file.
Start ==
    /\ pc \in {"idle", "returned", "failed"}
    /\ run < MaxRuns
    /\ run' = run + 1
    /\ \E m \in (SupportedModels \cup {"Llama"}), s \in Stages :
        /\ model' = m
        /\ stage' = s
        /\ IF cacheHit
           THEN /\ pc' = "loaded"
                /\ stagePrompts' = filterByStage(prompts, s)
                /\ UNCHANGED <<readCount, firstWaveReads, readAfterLoad>>
           ELSE /\ pc' = "loading"
                /\ stagePrompts' = <<>>
                /\ readCount' = readCount + 1
                /\ firstWaveReads' =
                       firstWaveReads + (IF loadsFinished = 0 THEN 1 ELSE 0)
                /\ readAfterLoad' = (readAfterLoad \/ isInitialized)
    /\ loadsFinished' = loadsFinished + (IF cacheHit THEN 1 ELSE 0)
    /\ idx' = 0
    /\ promptResults' = <<>>
    /\ totalResponseTime' = 0
    /\ successfulPrompts' = 0
    /\ totalWeightedScore' = 0
    /\ totalWeightSum' = 0
    /\ sentimentScores' = zeroDistribution
    /\ aiResponse' = noResponse
    /\ outcome' = noOutcome
    /\ inFlight' = {}
    /\ callLog' = <<>>
    /\ abCalls' = 0
    /\ abReturns' = 0
    /\ abThrows' = 0
    /\ analyzed' = <<>>
    /\ inputs' = <<>>
    /\ delays' = 0
    /\ UNCHANGED <<csvFile, prompts, isInitialized, firstList, loaderVars,
                   brandData, call, wfVars>>

\* fs.readFile resolves for the run's loadPrompts: the cache is filled and
\* getPromptsByStage filters the loaded list.
RunLoadResolve ==
    /\ pc = "loading"
    /\ csvFile.readable
    /\ LET loaded == parsePrompts(csvFile.rows) IN
        /\ prompts' = loaded
        /\ isInitialized' = TRUE
        /\ stagePrompts' = filterByStage(loaded, stage)
        /\ firstList' = IF isInitialized THEN firstList ELSE loaded
    /\ pc' = "loaded"
    /\ loadsFinished' = loadsFinished + 1
    /\ UNCHANGED <<csvFile, readCount, firstWaveReads, readAfterLoad, call, wfVars,
                   loaderVars, run, model,
                   stage, brandData, idx, promptResults, totalResponseTime,
                   successfulPrompts, totalWeightedScore, totalWeightSum,
                   sentimentScores, aiResponse, outcome, obsVars>>

\* fs.readFile rejects: loadPrompts throws, the outer catch re-throws.
RunLoadReject ==
    /\ pc = "loading"
    /\ ~csvFile.readable
    /\ pc' = "failed"
    /\ outcome' = outerCatch(Throw(<<"Failed to load prompts">>, FALSE))
    /\ loadsFinished' = loadsFinished + 1
    /\ UNCHANGED <<csvFile, prompts, isInitialized, readCount, firstWaveReads,
                   firstList, readAfterLoad, call, wfVars,
                   loaderVars, run, model, stage, brandData, stagePrompts, idx,
                   promptResults, totalResponseTime, successfulPrompts,
                   totalWeightedScore, totalWeightSum, sentimentScores,
                   aiResponse, obsVars>>

\* BeginLoop without the empty-list check of the older zero-clamping path:
\* an empty stage yields a zero-valued aggregate
BeginLoopNoCheck ==
    /\ pc = "loaded"
    /\ IF Len(stagePrompts) = 0
       THEN /\ pc' = "returned"
            /\ outcome' = [noOutcome EXCEPT !.kind = "returned",
                                            !.overallScore = <<0, 1>>,
                                            !.weightedScore = <<0, 1>>]
            /\ UNCHANGED <<stagePrompts, idx, promptResults, totalResponseTime,
                           successfulPrompts, totalWeightedScore,
                           totalWeightSum, sentimentScores, aiResponse,
                           obsVars>>
       ELSE /\ EnterPrompt(1)
            /\ UNCHANGED delays
    /\ UNCHANGED <<psVars, loaderVars, call, wfVars, run, model, stage, brandData>>

\* The stage prompts have arrived: an empty list is a run-level error,
\* otherwise the loop starts with the first prompt.
BeginLoop ==
    /\ pc = "loaded"
    /\ IF Len(stagePrompts) = 0
       THEN /\ pc' = "failed"
            /\ outcome' = outerCatch(Throw(
                   <<"No prompts found for stage: ", stage>>, FALSE))
            /\ UNCHANGED <<stagePrompts, idx, promptResults, totalResponseTime,
                           successfulPrompts, totalWeightedScore,
                           totalWeightSum, sentimentScores, aiResponse,
                           obsVars>>
       ELSE /\ EnterPrompt(1)
            /\ UNCHANGED delays
    /\ UNCHANGED <<psVars, loaderVars, call, wfVars, run, model, stage, brandData>>

\* The primary LLM call returns: parseAIResponse starts the scoring call.
PrimaryReturn ==
    /\ pc = "primary"
    /\ \E text \in { <<"1. Globex 2. Acme">> }, t \in ResponseTimes :
        aiResponse' = [response |-> text, responseTime |-> t]
    /\ pc' = "scoring"
    /\ inFlight' = (inFlight \ {<<idx, "primary">>}) \cup {<<idx, "scoring">>}
    /\ callLog' = callLog \o << <<"end", idx, "primary">>,
                                <<"start", idx, "scoring">> >>
    /\ UNCHANGED <<psVars, loaderVars, call, wfVars, run, model, stage, brandData,
                   stagePrompts, idx, promptResults, totalResponseTime,
                   successfulPrompts, totalWeightedScore, totalWeightSum,
                   sentimentScores, outcome, abCalls, abReturns, abThrows,
                   analyzed, inputs, delays>>

\* The primary LLM call fails (network error, timeout, provider error).
PrimaryThrow ==
    /\ pc = "primary"
    /\ inFlight' = inFlight \ {<<idx, "primary">>}
    /\ callLog' = Append(callLog, <<"end", idx, "primary">>)
    /\ \E error \in {Throw(<<"fetch failed">>, FALSE), ThrowValue(FALSE)},
          elapsed \in ResponseTimes :
        AfterAnalyzeBrand(idx, analyzeBrandCatch(error, elapsed),
                          Met(TRUE, FALSE, FALSE, noText))
    /\ UNCHANGED <<psVars, loaderVars, call, wfVars, run, model, stage, brandData, abCalls,
                   analyzed, delays>>

\* The scoring call returns a text: extraction, validation, result.
ScoringReturn ==
    /\ pc = "scoring"
    /\ inFlight' = inFlight \ {<<idx, "scoring">>}
    /\ callLog' = Append(callLog, <<"end", idx, "scoring">>)
    /\ \E text \in ScoringTexts, elapsed \in ResponseTimes :
        AfterAnalyzeBrand(idx,
            analyzeBrandParsed(aiResponse, parseAIResponse(Return(text)),
                               elapsed),
            Met(TRUE, TRUE, TRUE, text))
    /\ UNCHANGED <<psVars, loaderVars, call, wfVars, run, model, stage, brandData, abCalls,
                   analyzed, delays>>

\* The scoring call fails.
ScoringThrow ==
    /\ pc = "scoring"
    /\ inFlight' = inFlight \ {<<idx, "scoring">>}
    /\ callLog' = Append(callLog, <<"end", idx, "scoring">>)
    /\ \E error \in {Throw(<<"fetch failed">>, noText), ThrowValue(noText)},
          elapsed \in ResponseTimes :
        AfterAnalyzeBrand(idx,
            analyzeBrandParsed(aiResponse, parseAIResponse(error), elapsed),
            Met(TRUE, TRUE, FALSE, noText))
    /\ UNCHANGED <<psVars, loaderVars, call, wfVars, run, model, stage, brandData, abCalls,
                   analyzed, delays>>

\* The 500 ms timer fires: the next prompt is entered, or, after the last
\* prompt, the final metrics are computed and the run returns or throws.
DelayDone ==
    /\ pc = "delay"
    /\ delays' = delays + 1
    /\ IF idx < Len(stagePrompts)
       THEN EnterPrompt(idx + 1)
       ELSE /\ outcome' = finalMetrics
            /\ pc' = IF allFailed(successfulPrompts) THEN "failed"
                     ELSE "returned"
            /\ UNCHANGED <<stagePrompts, idx, promptResults, totalResponseTime,
                           successfulPrompts, totalWeightedScore,
                           totalWeightSum, sentimentScores, aiResponse,
                           inFlight, callLog, abCalls, abReturns, abThrows,
                           analyzed, inputs>>
    /\ UNCHANGED <<psVars, loaderVars, call, wfVars, run, model, stage, brandData>>

\* --------------------------------------------------------------------------
\* The analysis workflow (POST handler served by the workflow runtime)
\* --------------------------------------------------------------------------
\* One analysis is a list of (model, stage) pairs.  The handler is invoked
\* with a payload naming the pair to analyse now and the pairs that remain;
\* its steps run one after the other, and a step that throws ends the
\* invocation.  AnalysisStatus and the AnalysisPair records live in the
\* database; the trigger of the next invocation is a message in flight.

\* pair i of an analysis
pairAt(i) ==
    [model |-> IF i % 3 = 1 THEN "ChatGPT"
               ELSE IF i % 3 = 2 THEN "Claude" ELSE "Gemini",
     stage |-> IF i <= 3 THEN "TOFU" ELSE "MOFU"]

\* the request payload: currentPair and remainingPairs
Payload(current, remaining) ==
    [currentPair |-> current, remainingPairs |-> remaining]

noPayload == Payload([model |-> "ChatGPT", stage |-> "TOFU"], <<>>)

\* the AnalysisStatus document of the analysis, or its absence
noAnalysis ==
    [exists |-> FALSE, status |-> "none", completed_tasks |-> 0,
     current_task |-> <<>>]

runningAnalysis ==
    [exists |-> TRUE, status |-> "running", completed_tasks |-> 0,
     current_task |-> <<>>]

\* AnalysisStatus.findOneAndUpdate({analysis_id}, {$set: ...}): a document
\* that does not exist is not created
setStatus(doc, update) == IF doc.exists THEN update ELSE doc

\* the steps that follow a handler's receipt of its payload
WorkflowSteps ==
    {"connect-db", "check-analysis-status", "get-brand-user",
     "update-progress-start", "ai-analysis", "store-results",
     "update-progress-complete", "trigger-next-pair", "finalize-analysis",
     "send-completion-email"}

\* a step throws: the invocation ends with the error
StepThrows(step, msg) ==
    /\ wpc = step
    /\ wpc' = "failed"
    /\ werror' = msg
    /\ UNCHANGED <<analysisStatus, analysisPair, pairList, payload, queue,
                   analysedPairs, storedPairs, emails>>
    /\ UNCHANGED <<psVars, loaderVars, runVars, obsVars, call>>

\* The handler is invoked with the payload of the request.
Receive ==
    /\ wpc \in {"idle", "done"}
    /\ queue # <<>>
    /\ payload' = Head(queue)
    /\ queue' = Tail(queue)
    /\ wpc' = "connect-db"
    /\ werror' = <<>>
    /\ UNCHANGED <<analysisStatus, analysisPair, pairList, analysedPairs, storedPairs,
                   emails>>
    /\ UNCHANGED <<psVars, loaderVars, runVars, obsVars, call>>

\* step connect-db
ConnectDb ==
    \/ /\ wpc = "connect-db"
       /\ wpc' = "check-analysis-status"
       /\ UNCHANGED <<analysisStatus, analysisPair, pairList, payload, queue,
                      analysedPairs, storedPairs, emails, werror>>
       /\ UNCHANGED <<psVars, loaderVars, runVars, obsVars, call>>
    \/ StepThrows("connect-db", <<"connection failed">>)

\* check-analysis-status that looks for the document only and not at its
\* status
CheckAnalysisStatusFoundOnly ==
    IF ~analysisStatus.exists
    THEN StepThrows("check-analysis-status", <<"Analysis not found">>)
    ELSE /\ wpc = "check-analysis-status"
         /\ wpc' = "get-brand-user"
         /\ UNCHANGED <<analysisStatus, analysisPair, pairList, payload,
                        queue, analysedPairs, storedPairs, emails, werror>>
         /\ UNCHANGED <<psVars, loaderVars, runVars, obsVars, call>>

\* step check-analysis-status: the analysis must exist and be running
CheckAnalysisStatus ==
    IF ~analysisStatus.exists
    THEN StepThrows("check-analysis-status", <<"Analysis not found">>)
    ELSE IF analysisStatus.status # "running"
    THEN StepThrows("check-analysis-status",
                    <<"Analysis not running: ", analysisStatus.status>>)
    ELSE /\ wpc = "check-analysis-status"
         /\ wpc' = "get-brand-user"
         /\ UNCHANGED <<analysisStatus, analysisPair, pairList, payload,
                        queue, analysedPairs, storedPairs, emails, werror>>
         /\ UNCHANGED <<psVars, loaderVars, runVars, obsVars, call>>

\* step get-brand-user: both documents are found, or one is not
GetBrandUser ==
    \/ /\ wpc = "get-brand-user"
       /\ wpc' = "update-progress-start"
       /\ UNCHANGED <<analysisStatus, analysisPair, pairList, payload, queue,
                      analysedPairs, storedPairs, emails, werror>>
       /\ UNCHANGED <<psVars, loaderVars, runVars, obsVars, call>>
    \/ StepThrows("get-brand-user",
                  <<"Brand or user not found for background analysis">>)

\* step update-progress-start: the current task is noted and the pair's
\* record is set to running
UpdateProgressStart ==
    /\ wpc = "update-progress-start"
    /\ wpc' = "ai-analysis"
    /\ analysisStatus' =
           setStatus(analysisStatus,
               [analysisStatus EXCEPT
                   !.current_task = <<"Running analysis for ",
                                      payload.currentPair.model, "-",
                                      payload.currentPair.stage>>])
    /\ analysisPair' = [analysisPair EXCEPT ![payload.currentPair] = "running"]
    /\ UNCHANGED <<pairList, payload, queue, analysedPairs, storedPairs, emails, werror>>
    /\ UNCHANGED <<psVars, loaderVars, runVars, obsVars, call>>

\* step ai-analysis: AIService.analyzeWithMultiplePrompts is called for the
\* current pair and returns an aggregate or throws
AiAnalysis ==
    /\ wpc = "ai-analysis"
    /\ analysedPairs' = Append(analysedPairs, payload.currentPair)
    /\ \/ wpc' = "store-results" /\ werror' = werror
       \/ /\ wpc' = "failed"
          /\ werror' = <<"Failed to complete multi-prompt analysis: ">>
    /\ UNCHANGED <<analysisStatus, analysisPair, pairList, payload, queue,
                   storedPairs, emails>>
    /\ UNCHANGED <<psVars, loaderVars, runVars, obsVars, call>>

\* step store-results: DataOrganizationService.processAndStoreAnalysis
StoreResults ==
    \/ /\ wpc = "store-results"
       /\ wpc' = "update-progress-complete"
       /\ storedPairs' = Append(storedPairs, payload.currentPair)
       /\ UNCHANGED <<analysisStatus, analysisPair, pairList, payload, queue,
                      analysedPairs, emails, werror>>
       /\ UNCHANGED <<psVars, loaderVars, runVars, obsVars, call>>
    \/ StepThrows("store-results", <<"store failed">>)

\* what follows update-progress-complete: remainingPairs.length > 0 ?
afterComplete(p) ==
    IF Len(p.remainingPairs) > 0 THEN "trigger-next-pair"
    ELSE "finalize-analysis"

\* step update-progress-complete: the pair's record is set to completed and
\* the count of completed tasks is advanced
UpdateProgressComplete ==
    /\ wpc = "update-progress-complete"
    /\ wpc' = afterComplete(payload)
    /\ analysisPair' =
           [analysisPair EXCEPT ![payload.currentPair] = "completed"]
    /\ analysisStatus' =
           setStatus(analysisStatus,
               [analysisStatus EXCEPT
                   !.completed_tasks = analysisStatus.completed_tasks + 1,
                   !.current_task = <<"Completed analysis for ",
                                      payload.currentPair.model, "-",
                                      payload.currentPair.stage>>])
    /\ UNCHANGED <<pairList, payload, queue, analysedPairs, storedPairs, emails, werror>>
    /\ UNCHANGED <<psVars, loaderVars, runVars, obsVars, call>>

\* trigger-next-pair that hands the list on without its second pair
TriggerNextPairSkipping ==
    \/ /\ wpc = "trigger-next-pair"
       /\ wpc' = "done"
       /\ queue' = Append(queue,
                      Payload(Head(payload.remainingPairs),
                              IF Len(payload.remainingPairs) > 1
                              THEN Tail(Tail(payload.remainingPairs))
                              ELSE <<>>))
       /\ UNCHANGED <<analysisStatus, analysisPair, pairList, payload,
                      analysedPairs, storedPairs, emails, werror>>
       /\ UNCHANGED <<psVars, loaderVars, runVars, obsVars, call>>
    \/ StepThrows("trigger-next-pair", <<"Failed to trigger next pair: ">>)

\* step trigger-next-pair: the next invocation is requested with the head of
\* remainingPairs as its currentPair and the tail as its remainingPairs; a
\* response that is not ok throws
TriggerNextPair ==
    \/ /\ wpc = "trigger-next-pair"
       /\ wpc' = "done"
       /\ queue' = Append(queue,
                      Payload(Head(payload.remainingPairs),
                              Tail(payload.remainingPairs)))
       /\ UNCHANGED <<analysisStatus, analysisPair, pairList, payload,
                      analysedPairs, storedPairs, emails, werror>>
       /\ UNCHANGED <<psVars, loaderVars, runVars, obsVars, call>>
    \/ StepThrows("trigger-next-pair", <<"Failed to trigger next pair: ">>)

\* finalize-analysis that does not wait for the last pair: it runs in place
\* of the trigger of the next pair as well
FinalizeAnalysisEarly ==
    /\ wpc \in {"trigger-next-pair", "finalize-analysis"}
    /\ wpc' = "send-completion-email"
    /\ analysisStatus' =
           setStatus(analysisStatus,
               [analysisStatus EXCEPT
                   !.status = "completed",
                   !.current_task = <<"All analyses completed">>])
    /\ UNCHANGED <<analysisPair, pairList, payload, queue, analysedPairs, storedPairs,
                   emails, werror>>
    /\ UNCHANGED <<psVars, loaderVars, runVars, obsVars, call>>

\* step finalize-analysis: no pairs remain, the analysis is completed
FinalizeAnalysis ==
    /\ wpc = "finalize-analysis"
    /\ wpc' = "send-completion-email"
    /\ analysisStatus' =
           setStatus(analysisStatus,
               [analysisStatus EXCEPT
                   !.status = "completed",
                   !.current_task = <<"All analyses completed">>])
    /\ UNCHANGED <<analysisPair, pairList, payload, queue, analysedPairs, storedPairs,
                   emails, werror>>
    /\ UNCHANGED <<psVars, loaderVars, runVars, obsVars, call>>

\* step send-completion-email
SendCompletionEmail ==
    \/ /\ wpc = "send-completion-email"
       /\ wpc' = "done"
       /\ emails' = emails + 1
       /\ UNCHANGED <<analysisStatus, analysisPair, pairList, payload, queue,
                      analysedPairs, storedPairs, werror>>
       /\ UNCHANGED <<psVars, loaderVars, runVars, obsVars, call>>
    \/ StepThrows("send-completion-email", <<"email failed">>)

\* Elsewhere in the application the running analysis is stopped: its status
\* is no longer running when the handler looks at it.
StopAnalysis ==
    /\ analysisStatus.exists
    /\ analysisStatus.status = "running"
    /\ analysisStatus' = [analysisStatus EXCEPT !.status = "failed"]
    /\ UNCHANGED <<analysisPair, pairList, wpc, payload, queue, analysedPairs,
                   storedPairs, emails, werror>>
    /\ UNCHANGED <<psVars, loaderVars, runVars, obsVars, call>>

\* --------------------------------------------------------------------------
\* The older AIService (src/lib/services/aiService.ts)
\* --------------------------------------------------------------------------
\* What one prompt meets in the older analyzeBrand: the primary call and the
\* scoring call succeed or throw; the text of the scoring call is no JSON
\* (not-json), the JSON value null, or a JSON object that names the outcome
\* of the stage and has or lacks its sentiment_distribution.
LegacyMet(primaryOk, scoringOk, kind, value, hasSentiment) ==
    [primaryOk |-> primaryOk, scoringOk |-> scoringOk, kind |-> kind,
     value |-> value, hasSentiment |-> hasSentiment]

\* the outcome of the stage that the scales rate highest
bestOutcome(s) ==
    CASE s = "TOFU" -> "first"
      [] s = "MOFU" -> "positive"
      [] s = "BOFU" -> "yes"
      [] s = "EVFU" -> "recommend"

LegacyMets(s) ==
    { LegacyMet(FALSE, FALSE, "none", "", FALSE),
      LegacyMet(TRUE, FALSE, "none", "", FALSE),
      LegacyMet(TRUE, TRUE, "not-json", "", FALSE),
      LegacyMet(TRUE, TRUE, "null", "", FALSE) }
    \cup { LegacyMet(TRUE, TRUE, "object", v, h) :
              v \in {bestOutcome(s), "absent"}, h \in BOOLEAN }

\* the older parseAIResponse, the response built when JSON.parse throws
legacyParseFallback ==
    [score |-> 0,
     position_weighted_score |-> 0,
     sentiment |-> [distKind |-> "object", distribution |-> zeroDistribution],
     status |-> "error"]

\* the older parseAIResponse from the completion of its scoring call on
legacyParseAIResponse(met, s, weights) ==
    IF ~met.scoringOk THEN Throw(<<"fetch failed">>, legacyParseFallback)
    ELSE IF met.kind = "not-json" THEN Return(legacyParseFallback)
    ELSE IF met.kind = "null"
    THEN \* response.status read on null
         Throw(<<"Cannot read properties of null">>, legacyParseFallback)
    ELSE LET scored == computeStageSpecificScore(s, met.value, weights,
                                                 baseWeightOf(weights))
         IN  Return([score |-> scored.rawScore,
                     position_weighted_score |-> scored.weightedScore,
                     sentiment |->
                         IF met.hasSentiment
                         THEN [distKind |-> "object",
                               distribution |-> mostlyPositive]
                         ELSE [distKind |-> "absent",
                               distribution |-> zeroDistribution],
                     status |-> "success"])

\* the older analyzeBrand: the success return says status success whatever
\* the parsed data say, the catch returns the error result
legacyAnalyzeBrand(met, s, weights, elapsed) ==
    LET parsed == legacyParseAIResponse(met, s, weights)
    IN  IF ~met.primaryOk \/ parsed.thrown
        THEN [score |-> 0, position_weighted_score |-> 0,
              sentiment |-> [distKind |-> "object",
                             distribution |-> zeroDistribution],
              responseTime |-> 0, status |-> "error"]
        ELSE [score |-> parsed.val.score,
              position_weighted_score |-> parsed.val.position_weighted_score,
              sentiment |-> parsed.val.sentiment,
              responseTime |-> elapsed, status |-> "success"]

\* the entry the older loop pushes inside its try block; the scale values
\* are hundredths, so score * 100 is the score as it stands
legacyEntry(promptId, r) ==
    [promptId |-> promptId, score |-> r.score,
     weightedScore |-> r.position_weighted_score,
     responseTime |-> r.responseTime, sentiment |-> r.sentiment,
     status |-> r.status]

\* the entry the older loop pushes in its catch block
legacyErrorEntry(promptId) ==
    [promptId |-> promptId, score |-> 0, weightedScore |-> 0,
     responseTime |-> 0,
     sentiment |-> [distKind |-> "object", distribution |-> zeroDistribution],
     status |-> "error"]

\* the locals of the older analyzeWithMultiplePrompts before its loop, with
\* the aggregate it has not yet returned
legacyLocals ==
    [idx |-> 0, mets |-> <<>>, promptResults |-> <<>>,
     totalResponseTime |-> 0, successfulPrompts |-> 0,
     totalWeightedScore |-> 0, totalWeightSum |-> 0,
     sentimentScores |-> zeroDistribution,
     overallScore |-> <<0, 0>>, weightedScore |-> <<0, 0>>,
     successRate |-> <<0, 0>>]

\* one iteration of the older loop for a prompt whose analyzeBrand returned
\* r: the entry is pushed, a success is aggregated, and an exception of the
\* aggregation is caught by the iteration's catch, which pushes an entry of
\* its own
legacyIteration(loc, promptId, r, met) ==
    LET pushed == Append(loc.promptResults, legacyEntry(promptId, r))
        counted == [loc EXCEPT
                       !.idx = loc.idx + 1,
                       !.mets = Append(loc.mets, met),
                       !.promptResults = pushed]
    IN  IF r.status # "success"
        THEN [counted EXCEPT
                 !.totalResponseTime = loc.totalResponseTime + r.responseTime]
        ELSE IF r.sentiment.distKind # "object"
        THEN \* reading distribution of undefined throws after the counts
             [counted EXCEPT
                 !.successfulPrompts = loc.successfulPrompts + 1,
                 !.totalWeightedScore =
                     loc.totalWeightedScore + r.position_weighted_score,
                 !.totalWeightSum = loc.totalWeightSum + 1,
                 !.promptResults = Append(pushed, legacyErrorEntry(promptId))]
        ELSE [counted EXCEPT
                 !.successfulPrompts = loc.successfulPrompts + 1,
                 !.totalWeightedScore =
                     loc.totalWeightedScore + r.position_weighted_score,
                 !.totalWeightSum = loc.totalWeightSum + 1,
                 !.sentimentScores =
                     addSentiment(loc.sentimentScores, r.sentiment.distribution),
                 !.totalResponseTime = loc.totalResponseTime + r.responseTime]

\* the metrics the older function computes after its loop
legacyMetrics(loc, total) ==
    [loc EXCEPT
        !.overallScore =
            IF loc.successfulPrompts > 0
            THEN <<sumSuccessScores(loc.promptResults), loc.successfulPrompts>>
            ELSE <<0, 1>>,
        !.weightedScore =
            IF loc.totalWeightSum > 0
            THEN <<loc.totalWeightedScore, loc.totalWeightSum>>
            ELSE <<0, 1>>,
        !.successRate = successRateOf(loc.successfulPrompts, total)]

\* --------------------------------------------------------------------------
\* Specifications
\* --------------------------------------------------------------------------
\* no function is being looked at by itself
noCall == [fn |-> "none", done |-> FALSE, args |-> <<>>, result |-> <<>>]

\* the process after start-up with the given file on disk, before any request
\* for the given brand: empty prompt cache, no run in progress
InitProcess(file, brand) ==
    /\ csvFile = file
    /\ prompts = <<>>
    /\ isInitialized = FALSE
    /\ lpc = [c \in Loaders |-> "idle"]
    /\ lstage = [c \in Loaders |-> ""]
    /\ lgot = [c \in Loaders |-> <<>>]
    /\ lret = [c \in Loaders |-> <<>>]
    /\ lcalls = [c \in Loaders |-> 0]
    /\ lfirst = [c \in Loaders |-> FALSE]
    /\ readCount = 0
    /\ firstWaveReads = 0
    /\ loadsFinished = 0
    /\ firstList = <<>>
    /\ readAfterLoad = FALSE
    /\ llate = [c \in Loaders |-> FALSE]
    /\ pc = "idle"
    /\ run = 0
    /\ model = "ChatGPT"
    /\ stage = "TOFU"
    /\ brandData = brand
    /\ stagePrompts = <<>>
    /\ idx = 0
    /\ promptResults = <<>>
    /\ totalResponseTime = 0
    /\ successfulPrompts = 0
    /\ totalWeightedScore = 0
    /\ totalWeightSum = 0
    /\ sentimentScores = zeroDistribution
    /\ aiResponse = noResponse
    /\ outcome = noOutcome
    /\ inFlight = {}
    /\ callLog = <<>>
    /\ abCalls = 0
    /\ abReturns = 0
    /\ abThrows = 0
    /\ analyzed = <<>>
    /\ inputs = <<>>
    /\ delays = 0

\* a function is invoked by itself with the given arguments, and completes
Invoke(fn, args) == [fn |-> fn, done |-> FALSE, args |-> args, result |-> <<>>]
Complete(c, result) == [c EXCEPT !.done = TRUE, !.result = result]
Completed(fn) == call.fn = fn /\ call.done

noFile == [readable |-> FALSE, rows |-> <<>>]
noBrand ==
    [name |-> <<>>, category |-> <<>>, region |-> <<>>,
     target_audience |-> <<>>, use_case |-> <<>>, competitors |-> <<>>,
     feature_list |-> <<>>]

\* no analysis has been created and no workflow invocation requested
noWorkflow ==
    /\ analysisStatus = noAnalysis
    /\ pairList = <<>>
    /\ analysisPair = [p \in {} |-> "pending"]
    /\ wpc = "idle"
    /\ payload = noPayload
    /\ werror = <<>>
    /\ queue = <<>>
    /\ analysedPairs = <<>>
    /\ storedPairs = <<>>
    /\ emails = 0

\* the idle process in which one of the given invocations is made
InitCall(calls) == InitProcess(noFile, noBrand) /\ call \in calls /\ noWorkflow

Init ==
    /\ \E file \in CsvFiles, brand \in Brands : InitProcess(file, brand)
    /\ call = noCall
    /\ noWorkflow

\* one process running analyses one after the other
Next ==
    \/ Start
    \/ RunLoadResolve
    \/ RunLoadReject
    \/ BeginLoop
    \/ PrimaryReturn
    \/ PrimaryThrow
    \/ ScoringReturn
    \/ ScoringThrow
    \/ DelayDone

Spec == Init /\ [][Next]_vars

\* concurrent callers of the prompt store while the file may be replaced
NextLoad ==
    \/ \E c \in Loaders : LoaderEnter(c)
    \/ \E c \in Loaders : LoaderResolve(c)
    \/ \E c \in Loaders : LoaderReject(c)
    \/ EditCsv

SpecLoad == Init /\ [][NextLoad]_vars

\* PromptService.replacePromptPlaceholders on every template and profile
RenderCalls ==
    { Invoke("replacePromptPlaceholders", [promptText |-> t, brandData |-> b]) :
        t \in Templates, b \in BrandProfiles }

Render ==
    /\ call.fn = "replacePromptPlaceholders"
    /\ ~call.done
    /\ call' = Complete(call, replacePromptPlaceholders(call.args.promptText,
                                                        call.args.brandData))
    /\ UNCHANGED <<psVars, loaderVars, runVars, obsVars, wfVars>>

SpecRender == InitCall(RenderCalls) /\ [][Render]_vars

\* the sentiment aggregation of analyzeWithMultiplePrompts on every vector
\* of component sums that successful prompts can leave behind
SentimentCalls ==
    { Invoke("aggregateSentiment",
             [sentimentScores |-> sums, successfulPrompts |-> n]) :
        sums \in [SentimentKeys -> 0..MaxComponent], n \in 1..2 }

Aggregate ==
    /\ call.fn = "aggregateSentiment"
    /\ ~call.done
    /\ call' = Complete(call, aggregateSentiment(call.args.sentimentScores,
                                                 call.args.successfulPrompts))
    /\ UNCHANGED <<psVars, loaderVars, runVars, obsVars, wfVars>>

SpecSentiment == InitCall(SentimentCalls) /\ [][Aggregate]_vars

\* the values validateParsedResponse can be handed: the non-objects, and the
\* objects with any subset of the required keys, any kind of score and any
\* kind of sentiment (a key that is absent has the value undefined)
ParsedValues ==
    { jsNull, jsNumber, jsPrimitive("string"), jsArray }
    \cup { v \in { JsValue("object", keys, st, 40, sk,
                           IF sk = "object" THEN "object" ELSE "absent",
                           mostlyPositive) :
                      keys \in SUBSET AllKeys,
                      st \in {"undefined", "null", "string", "NaN", "number"},
                      sk \in {"undefined", "null", "string", "number",
                              "array", "object"} } :
               /\ ("score" \in v.keys) <=> (v.scoreType # "undefined")
               /\ ("sentiment" \in v.keys) <=> (v.sentKind # "undefined") }

Validate ==
    /\ call.fn = "validateParsedResponse"
    /\ ~call.done
    /\ call' = Complete(call, validateParsedResponse(call.args.parsed))
    /\ UNCHANGED <<psVars, loaderVars, runVars, obsVars, wfVars>>

SpecValidate ==
    /\ InitCall({ Invoke("validateParsedResponse", [parsed |-> v]) :
                    v \in ParsedValues })
    /\ [][Validate]_vars

\* AIService.extractAndParseJSON on every judgment text in every style (a
\* text in single quotes cannot hold an apostrophe), on the plain judgment
\* texts with a marked rationale, and on the other responses
ExtractCalls ==
    LET Styles ==
            {"plain", "fenced", "prose-fenced", "note-fenced", "fenced-prose",
             "prose-fenced-prose", "trailing-comma", "single-quoted"}
        JudgmentTexts ==
            { JudgmentText(r, c) : r \in Rationales, c \in CompetitorLists }
    IN  { Invoke("extractAndParseJSON",
                 [response |-> Response(TRUE, styled(w[1], w[2])),
                  style |-> w[1], source |-> w[2]]) :
            w \in { v \in Styles \X JudgmentTexts :
                       v[1] = "single-quoted"
                           => firstIndexOf(v[2], "'", 1) = 0 } }
        \cup { Invoke("extractAndParseJSON",
                      [response |-> Response(TRUE, JudgmentText(r, <<>>)),
                       style |-> "plain", source |-> JudgmentText(r, <<>>)]) :
                  r \in MarkedRationales }
        \cup { Invoke("extractAndParseJSON",
                      [response |-> r, style |-> "other", source |-> <<>>]) :
                  r \in OtherResponses }

Extract ==
    /\ call.fn = "extractAndParseJSON"
    /\ ~call.done
    /\ call' = Complete(call, extractAndParseJSONText(call.args.response))
    /\ UNCHANGED <<psVars, loaderVars, runVars, obsVars, wfVars>>

SpecExtract == InitCall(ExtractCalls) /\ [][Extract]_vars

\* Scoring of one response.  In the current service parseAIResponse is
\* handed the stage and the response, in which the brand shows with one of
\* the outcomes of the stage, and builds the result from the text of the
\* scoring call; in the older service computeStageSpecificScore is handed
\* the outcome that the analysis call extracted, and the prompt's weights.
ScoreCalls ==
    { Invoke("parseAIResponse",
             [stage |-> w[1], outcome |-> w[2], text |-> w[3]]) :
        w \in UNION { {s} \X Outcomes(s) \X ScoringTexts : s \in Stages } }
    \cup { Invoke("computeStageSpecificScore",
                  [stage |-> w[1], outcome |-> w[2], weights |-> w[3]]) :
              w \in UNION { {s} \X Outcomes(s) \X WeightConfigs :
                              s \in Stages } }

ParseScore ==
    /\ call.fn = "parseAIResponse"
    /\ ~call.done
    /\ call' = Complete(call, parseAIResponse(Return(call.args.text)))
    /\ UNCHANGED <<psVars, loaderVars, runVars, obsVars, wfVars>>

ComputeScore ==
    /\ call.fn = "computeStageSpecificScore"
    /\ ~call.done
    /\ call' = Complete(call,
                   computeStageSpecificScore(call.args.stage,
                       call.args.outcome, call.args.weights,
                       baseWeightOf(call.args.weights)))
    /\ UNCHANGED <<psVars, loaderVars, runVars, obsVars, wfVars>>

SpecScore == InitCall(ScoreCalls) /\ [][ParseScore \/ ComputeScore]_vars

\* The workflow of one analysis.  The first invocation has been requested
\* with the first pair of the analysis as currentPair and the others as
\* remainingPairs; the AnalysisStatus document is running, or is not there;
\* every pair has its AnalysisPair record.
InitWorkflow ==
    /\ InitProcess(noFile, noBrand)
    /\ call = noCall
    /\ pairList \in { [i \in 1..n |-> pairAt(i)] : n \in 1..MaxPairs }
    /\ analysisStatus \in {noAnalysis, runningAnalysis}
    /\ analysisPair = [p \in { pairList[i] : i \in 1..Len(pairList) } |->
                          "pending"]
    /\ wpc = "idle"
    /\ payload = noPayload
    /\ werror = <<>>
    /\ queue = << Payload(Head(pairList), Tail(pairList)) >>
    /\ analysedPairs = <<>>
    /\ storedPairs = <<>>
    /\ emails = 0

NextWorkflow ==
    \/ Receive
    \/ ConnectDb
    \/ CheckAnalysisStatus
    \/ GetBrandUser
    \/ UpdateProgressStart
    \/ AiAnalysis
    \/ StoreResults
    \/ UpdateProgressComplete
    \/ TriggerNextPair
    \/ FinalizeAnalysis
    \/ SendCompletionEmail
    \/ StopAnalysis

SpecWorkflow == InitWorkflow /\ [][NextWorkflow]_vars

\* The older analyzeWithMultiplePrompts for a stage with one prompt or more,
\* with the weights of its prompts: one step per iteration of its loop, then
\* the metrics and the return.
LegacyCalls ==
    { [fn |-> "analyzeWithMultiplePrompts", done |-> FALSE,
       args |-> [stage |-> s, weights |-> w,
                 promptIds |-> [i \in 1..n |-> csvRow(i).prompt_id]],
       result |-> legacyLocals] :
        s \in Stages, w \in WeightConfigs, n \in 1..MaxPrompts }

LegacyPrompt ==
    /\ call.fn = "analyzeWithMultiplePrompts"
    /\ ~call.done
    /\ call.result.idx < Len(call.args.promptIds)
    /\ \E met \in LegacyMets(call.args.stage), elapsed \in ResponseTimes :
        call' = [call EXCEPT
                    !.result =
                        legacyIteration(call.result,
                            call.args.promptIds[call.result.idx + 1],
                            legacyAnalyzeBrand(met, call.args.stage,
                                               call.args.weights, elapsed),
                            met)]
    /\ UNCHANGED <<psVars, loaderVars, runVars, obsVars, wfVars>>

LegacyReturn ==
    /\ call.fn = "analyzeWithMultiplePrompts"
    /\ ~call.done
    /\ call.result.idx = Len(call.args.promptIds)
    /\ call' = Complete(call,
                   legacyMetrics(call.result, Len(call.args.promptIds)))
    /\ UNCHANGED <<psVars, loaderVars, runVars, obsVars, wfVars>>

SpecLegacy ==
    InitCall(LegacyCalls) /\ [][LegacyPrompt \/ LegacyReturn]_vars

\* --------------------------------------------------------------------------
\* Properties
\* --------------------------------------------------------------------------
\* the run is over: analyzeWithMultiplePrompts has returned or thrown
Finished == pc \in {"returned", "failed"}

\* the indices of the successful entries of a list of prompt results
SuccessIdx(results) ==
    { i \in 1..Len(results) : results[i].status = "success" }

\* the sum of the scores of the entries with the given indices
RECURSIVE ScoreSum(_, _)
ScoreSum(results, I) ==
    IF I = {} THEN 0
    ELSE LET i == CHOOSE k \in I : TRUE
         IN  results[i].score + ScoreSum(results, I \ {i})

\* every step of one prompt went well: supported model, primary call,
\* scoring call, JSON extraction, validation
AllStepsOk(m) ==
    /\ m.supported
    /\ m.primaryOk
    /\ m.scoringOk
    /\ ~extractAndParseJSON(m.text).thrown
    /\ ~validateParsedResponse(extractAndParseJSON(m.text).val).thrown

\* C1: analyzeBrand is total.  Whatever the model, the prompt and the
\* outcomes of the primary and the scoring call, every invocation ends by
\* returning one result and none lets an exception escape: no invocation has
\* thrown, at most one is in progress, and outside an invocation there are as
\* many results as invocations.
C1_AnalyzeBrandTotal ==
    /\ abThrows = 0
    /\ abCalls = abReturns + (IF pc \in {"primary", "scoring"} THEN 1 ELSE 0)
    /\ Len(inputs) = abReturns
    /\ Len(promptResults) = abReturns

\* analyzeBrand has returned after a failed primary call, after a failed
\* scoring call (one of them rejecting with a non-Error) and after a success
C1_Witness ==
    /\ pc = "delay"
    /\ abReturns = 3
    /\ \E i, j, k \in 1..3 :
        /\ ~inputs[i].primaryOk
        /\ inputs[j].primaryOk /\ ~inputs[j].scoringOk
        /\ promptResults[j].response = <<"Analysis failed: ",
               "Failed to parse AI response: ", "Unknown error">>
        /\ AllStepsOk(inputs[k])

\* C2: a result has status success only when the primary call, the scoring
\* call, the extraction and the validation all succeeded; when any of them
\* failed the result has status error, score 0, weighted score 0 and an
\* "Analysis failed: ..." message as its response.
C2_SuccessOnlyWhenAllSucceeded ==
    \A i \in 1..Len(promptResults) :
        i <= Len(inputs) =>
            LET r == promptResults[i]
                m == inputs[i]
            IN  /\ r.status = "success" => AllStepsOk(m)
                /\ ~AllStepsOk(m) =>
                       /\ r.status = "error"
                       /\ r.score = 0
                       /\ r.weightedScore = 0
                       /\ r.response[1] = "Analysis failed: "

\* one run holds a success, a prompt whose judgment failed validation and a
\* prompt whose scoring text could not be parsed
C2_Witness ==
    \E i, j, k \in 1..Len(promptResults) :
        /\ Len(inputs) = Len(promptResults)
        /\ promptResults[i].status = "success"
        /\ inputs[j].scoringOk /\ inputs[j].text.kind = "strict"
        /\ promptResults[j].status = "error"
        /\ inputs[k].scoringOk /\ inputs[k].text.kind = "prose"
        /\ promptResults[k].status = "error"

\* C3: analyzeWithMultiplePrompts throws only on a prompt-store load
\* failure, on zero prompts for the stage, or when every prompt of the stage
\* was analysed and none succeeded; nothing in the content of one prompt's
\* LLM or scoring response makes it throw.
C3_OnlyRunLevelFailures ==
    pc = "failed" =>
        \/ outcome.msg = <<"Failed to complete multi-prompt analysis: ",
                           "Failed to load prompts">>
        \/ Len(stagePrompts) = 0
        \/ /\ Len(promptResults) = Len(stagePrompts)
           /\ SuccessIdx(promptResults) = {}

\* C4: no cross-prompt cancellation.  When a run over N >= 1 stage prompts
\* is over, analyzeBrand has been invoked exactly N times, once per prompt
\* and in template order.
C4_EveryPromptAnalysed ==
    (Finished /\ Len(stagePrompts) >= 1) =>
        /\ abCalls = Len(stagePrompts)
        /\ analyzed = [i \in 1..Len(stagePrompts) |->
                          stagePrompts[i].prompt_id]

\* C5: a run over N >= 1 stage prompts returns an aggregate if and only if
\* at least one prompt succeeded; with 0 of N successes it throws and never
\* returns an aggregate with overallScore 0.
C5_AggregateIffSuccess ==
    (Finished /\ Len(stagePrompts) >= 1) =>
        (pc = "returned" <=> SuccessIdx(promptResults) # {})

\* C6: when getPromptsByStage returns an empty list, the run throws the
\* "No prompts found for stage" error without any LLM call, any analyzeBrand
\* invocation or any prompt result.
C6_NoPromptsForStage ==
    [][(pc = "loaded" /\ Len(stagePrompts) = 0) =>
          /\ pc' = "failed"
          /\ outcome'.kind = "thrown"
          /\ outcome'.msg = <<"Failed to complete multi-prompt analysis: ",
                              "No prompts found for stage: ", stage>>
          /\ callLog' = <<>>
          /\ inFlight' = {}
          /\ abCalls' = 0
          /\ promptResults' = <<>>]_vars

\* the store holds prompts, none of them for the requested stage, and the
\* run has thrown without a call
C6_Witness ==
    /\ pc = "failed"
    /\ Len(prompts) > 0
    /\ filterByStage(prompts, stage) = <<>>
    /\ outcome.msg = <<"Failed to complete multi-prompt analysis: ",
                       "No prompts found for stage: ", stage>>
    /\ callLog = <<>>

\* C7: in every returned aggregate, overallScore is the arithmetic mean of
\* score over exactly the results with status success: overallScore times
\* the number of successes equals the sum of their scores.
C7_OverallScoreIsSuccessMean ==
    pc = "returned" =>
        LET results == outcome.promptResults
            S == SuccessIdx(results)
        IN  /\ S # {}
            /\ outcome.overallScore[2] > 0
            /\ outcome.overallScore[1] * Cardinality(S)
                   = ScoreSum(results, S) * outcome.overallScore[2]

\* three prompts of which exactly one succeeded, with score 40: the
\* aggregate's overallScore is 40
C7_Witness ==
    /\ pc = "returned"
    /\ Len(outcome.promptResults) = 3
    /\ Cardinality(SuccessIdx(outcome.promptResults)) = 1
    /\ outcome.overallScore = <<40, 1>>

\* C8: in every returned aggregate, successRate = successes / stage prompts
\* * 100, it is 100 when all succeed, and it lies in (0, 100].
C8_SuccessRate ==
    pc = "returned" =>
        LET n == Len(stagePrompts)
            k == Cardinality(SuccessIdx(outcome.promptResults))
            rate == outcome.successRate
        IN  /\ rate[2] > 0
            /\ rate[1] * n = k * 100 * rate[2]
            /\ rate[1] > 0
            /\ rate[1] <= 100 * rate[2]
            /\ k = n => rate[1] = 100 * rate[2]

\* two of three prompts succeeded: successRate is 200/3
C8_Witness ==
    /\ pc = "returned"
    /\ Len(stagePrompts) = 3
    /\ Cardinality(SuccessIdx(outcome.promptResults)) = 2
    /\ outcome.successRate = <<200, 3>>

\* C9: prompts are processed strictly sequentially.  At most one LLM call
\* is outstanding at any moment, and when the primary call of a prompt
\* starts, every call started before it (the primary and the scoring call
\* of each earlier prompt) has ended.
C9_StrictlySequential ==
    /\ Cardinality(inFlight) <= 1
    /\ \A k \in 1..Len(callLog) :
        callLog[k][1] = "start" =>
            \A j \in 1..(k - 1) :
                callLog[j][1] = "start" =>
                    /\ callLog[j][2] <= callLog[k][2]
                    /\ \E l \in (j + 1)..(k - 1) :
                           callLog[l] = <<"end", callLog[j][2], callLog[j][3]>>

\* the primary call of prompt 2 is outstanding after both calls of prompt 1
C9_Witness ==
    /\ inFlight = {<<2, "primary">>}
    /\ \E j \in 1..Len(callLog) : callLog[j] = <<"end", 1, "scoring">>

\* C11: memoisation.  Once one call to loadPrompts has completed
\* successfully, no later call to loadPrompts or getPromptsByStage reads the
\* source again, and every later call returns the list of that first
\* successful load (filtered by its stage), whatever that list is.
C11_Memoised ==
    /\ ~readAfterLoad
    /\ \A c \in Loaders :
        (llate[c] /\ lpc[c] = "done")
            => lret[c] = loaderResult(firstList, lstage[c])

\* C10: load-once under concurrency.  The callers that invoke loadPrompts
\* before any load has completed cause at most one read of the CSV source,
\* and all of them receive the same list.
C10_LoadOnce ==
    /\ firstWaveReads <= 1
    /\ \A c, d \in Loaders :
        (lpc[c] = "done" /\ lpc[d] = "done" /\ lfirst[c] /\ lfirst[d])
            => lgot[c] = lgot[d]

\* the recognised placeholder tokens
PlaceholderTokens ==
    {"{brand_name}", "{name}", "{category}", "{region}", "{audience}",
     "{use_case}", "{competitor}", "{feature_list}"}

\* the fragments of a text
Fragments(text) == { text[i] : i \in 1..Len(text) }

\* the brand value a placeholder stands for is missing or empty
FieldEmpty(b, token) ==
    CASE token \in {"{brand_name}", "{name}"} -> b.name = <<>>
      [] token = "{category}" -> b.category = <<>>
      [] token = "{region}" -> b.region = <<>>
      [] token = "{audience}" -> b.target_audience = <<>>
      [] token = "{use_case}" -> b.use_case = <<>>
      [] token = "{competitor}" -> b.competitors = <<>>
      [] token = "{feature_list}" -> b.feature_list = <<>>

\* the fixed fallback phrase of a placeholder
Fallback(token) ==
    CASE token \in {"{brand_name}", "{name}"} -> "Unknown Brand"
      [] token = "{category}" -> "business services"
      [] token = "{region}" -> "your region"
      [] token = "{audience}" -> "businesses"
      [] token = "{use_case}" -> "general business needs"
      [] token = "{competitor}" -> "industry leaders"
      [] token = "{feature_list}" -> "core services and features"

\* C12: for every template and every brand profile, the text returned by
\* replacePromptPlaceholders contains none of the recognised placeholder
\* tokens, and a placeholder of the template whose brand field is missing or
\* empty is rendered as its fallback phrase.
C12_NoPlaceholderLeft ==
    Completed("replacePromptPlaceholders") =>
        /\ Fragments(call.result) \cap PlaceholderTokens = {}
        /\ \A token \in PlaceholderTokens \cap Fragments(call.args.promptText) :
               FieldEmpty(call.args.brandData, token)
                   => Fallback(token) \in Fragments(call.result)

\* the sum of the four percentages of a sentiment distribution
DistributionSum(d) ==
    d.positive + d.neutral + d.negative + d.strongly_positive

\* C13: in every aggregate built with at least one successful prompt, the
\* four aggregatedSentiment.distribution percentages sum to a value within
\* 1 of 100, for all non-negative sentiment components.
C13_DistributionSumsTo100 ==
    (Completed("aggregateSentiment") /\ call.args.successfulPrompts >= 1) =>
        /\ DistributionSum(call.result.distribution) >= 99
        /\ DistributionSum(call.result.distribution) <= 101

\* C18: the 500 ms delay occurs only between successive prompt calls.  While
\* the calls of prompt i are outstanding i - 1 delays have been awaited (none
\* before the first prompt), and a run that has recorded the results of all
\* its N prompts has awaited exactly N - 1 delays (none after the last).
C18_DelaysBetweenOnly ==
    /\ pc \in {"primary", "scoring"} => delays = idx - 1
    /\ (Finished /\ Len(stagePrompts) >= 1
            /\ Len(promptResults) = Len(stagePrompts))
           => delays = Len(stagePrompts) - 1

\* the field names an error message lists between its first fragment and
\* the "Available fields" part
NamedMissing(msg) ==
    LET stop == CHOOSE i \in 1..(Len(msg) + 1) :
                    /\ i = Len(msg) + 1 \/ msg[i] = "\nAvailable fields: "
                    /\ \A j \in 1..(i - 1) : msg[j] # "\nAvailable fields: "
    IN  { msg[i] : i \in 2..(stop - 1) } \ {", "}

\* C20: validateParsedResponse accepts a parsed object if and only if it has
\* all four keys score, confidence, rationale and sentiment, its score is a
\* number that is not NaN and its sentiment is a non-null object; otherwise
\* it raises an error, and when keys are missing the error names exactly
\* the missing keys.
C20_ValidateIff ==
    Completed("validateParsedResponse") =>
        LET parsed == call.args.parsed
            missing == AllKeys \ parsed.keys
            wellFormed ==
                /\ parsed.jtype \in {"object", "array"}
                /\ missing = {}
                /\ parsed.scoreType = "number"
                /\ parsed.sentKind \in {"object", "array"}
        IN  /\ ~call.result.thrown <=> wellFormed
            /\ (parsed.jtype \in {"object", "array"} /\ missing # {}) =>
                   /\ call.result.msg[1]
                          = "Missing required fields in AI response: "
                   /\ NamedMissing(call.result.msg) = missing

\* an object with score and rationale only was rejected with an error that
\* names confidence and sentiment
C20_Witness ==
    /\ Completed("validateParsedResponse")
    /\ call.args.parsed.keys = {"score", "rationale"}
    /\ call.result.thrown
    /\ call.result.msg = <<"Missing required fields in AI response: ",
                           "confidence", ", ", "sentiment",
                           "\nAvailable fields: ", "score", ", ", "rationale">>

\* C14: for every well-formed judgment object J, extractAndParseJSON returns
\* an object equal to J when given J's JSON text (a) in a Markdown code fence
\* with commentary before and/or after it, (b) with a trailing comma before
\* the closing brace, or (c) in single quotes.
C14_ExtractionRoundTrip ==
    (Completed("extractAndParseJSON")
        /\ call.args.style \in {"prose-fenced", "note-fenced", "fenced-prose",
                                "prose-fenced-prose", "trailing-comma",
                                "single-quoted"})
       => /\ ~call.result.thrown
          /\ call.result.val = JSONparse(call.args.source).value

\* the text has no token that could open or close a {...} or [...] span
NoSpan(text) == \A i \in 1..Len(text) : text[i] \notin {"{", "}", "[", "]"}

\* C15: extractAndParseJSON raises an error and returns nothing for every
\* input that is empty, not a string, or text without a {...} or [...] span.
C15_RaisesOnNoJson ==
    (Completed("extractAndParseJSON")
        /\ \/ ~call.args.response.isString
           \/ NoSpan(call.args.response.text))
       => call.result.thrown

\* C19: extractAndParseJSON never returns a value that is not a JSON object:
\* a text that parses to a primitive, to null or to an array raises an error.
C19_ReturnsObjectsOnly ==
    (Completed("extractAndParseJSON") /\ ~call.result.thrown)
       => jsonTypeOf(call.result.val) = "object"

\* parseAIResponse has built a successful result
Scored == Completed("parseAIResponse") /\ ~call.result.thrown

\* C16: for all four stages, a successful result for a response in which
\* the brand is absent has score 0, for every weights configuration and
\* every scoring-model output the code accepts.
C16_AbsentScoresZero ==
    /\ (Scored /\ call.args.outcome = "absent")
           => call.result.val.score = 0
    /\ (Completed("computeStageSpecificScore")
            /\ call.args.outcome = "absent")
           => call.result.rawScore = 0

\* C17: for the BOFU stage, every successful result whose intent is
\* anything other than yes has score <= 66, whatever the scoring model
\* answered.
C17_BofuCappedWithoutYes ==
    /\ (Scored /\ call.args.stage = "BOFU" /\ call.args.outcome # "yes")
           => call.result.val.score <= 66
    /\ (Completed("computeStageSpecificScore") /\ call.args.stage = "BOFU"
            /\ call.args.outcome # "yes")
           => call.result.rawScore <= 66

\* C21: a failed load leaves no partial cache, and a loaded cache stays.  A
\* step in which loadPrompts throws leaves the cached list and isInitialized
\* as they were, and once a load has succeeded no step empties or replaces
\* the cached list.
C21_NoPartialCacheAndStable ==
    [][/\ (\E c \in Loaders : lpc[c] = "reading" /\ lpc'[c] = "failed")
              => (prompts' = prompts /\ isInitialized' = isInitialized)
       /\ isInitialized => (prompts' = prompts /\ isInitialized')]_vars

\* the entries of a list
Members(list) == { list[i] : i \in 1..Len(list) }

\* C22: every prompt kept in the cache belongs to exactly one of the four
\* stages.  The results of getPromptsByStage for TOFU, MOFU, BOFU and EVFU
\* are pairwise disjoint, together they hold every cached prompt, and each
\* keeps the order of the cache.
C22_StagesPartitionCache ==
    LET byStage == [s \in Stages |-> filterByStage(prompts, s)]
    IN  /\ \A s, t \in Stages :
               s # t => Members(byStage[s]) \cap Members(byStage[t]) = {}
        /\ UNION { Members(byStage[s]) : s \in Stages } = Members(prompts)
        /\ \A s \in Stages : \A i, j \in 1..Len(byStage[s]) :
               i < j => \E a, b \in 1..Len(prompts) :
                            /\ a < b
                            /\ prompts[a] = byStage[s][i]
                            /\ prompts[b] = byStage[s][j]

\* the sum of one sentiment component over the successful entries
RECURSIVE ComponentSum(_, _)
ComponentSum(results, k) ==
    IF results = <<>> THEN 0
    ELSE (IF Head(results).status = "success"
          THEN Head(results).sentiment.distribution[k] ELSE 0)
         + ComponentSum(Tail(results), k)

\* C23: in every returned aggregate, aggregatedSentiment.confidence is the
\* largest of the four summed sentiment components divided by the number of
\* successful prompts, rounded to an integer percentage, and it lies in
\* [0, 100] when every per-prompt component lies in [0, 100].
C23_ConfidenceIsPercentage ==
    pc = "returned" =>
        LET results == outcome.promptResults
            n == Cardinality(SuccessIdx(results))
            largest == CHOOSE v \in { ComponentSum(results, k) :
                                        k \in SentimentKeys } :
                           \A k \in SentimentKeys : ComponentSum(results, k) <= v
            c == outcome.aggregatedSentiment.confidence
        IN  /\ 2 * c * n - n <= 200 * largest
            /\ 200 * largest < 2 * c * n + n
            /\ (\A i \in SuccessIdx(results), k \in SentimentKeys :
                   results[i].sentiment.distribution[k] \in 0..100)
                   => c \in 0..100

\* the sum of the weighted scores of the entries with the given indices
RECURSIVE WeightedSum(_, _)
WeightedSum(results, I) ==
    IF I = {} THEN 0
    ELSE LET i == CHOOSE k \in I : TRUE
         IN  results[i].weightedScore + WeightedSum(results, I \ {i})

\* C24: in every returned aggregate, weightedScore is the arithmetic mean of
\* the per-prompt weightedScore over exactly the results with status
\* success: weightedScore times the number of successes equals the sum of
\* their weighted scores, and error results add nothing to either.
C24_WeightedScoreIsSuccessMean ==
    pc = "returned" =>
        LET results == outcome.promptResults
            S == SuccessIdx(results)
        IN  /\ S # {}
            /\ outcome.weightedScore[2] > 0
            /\ outcome.weightedScore[1] * Cardinality(S)
                   = WeightedSum(results, S) * outcome.weightedScore[2]

\* three prompts of which one failed and two succeeded, with weighted scores
\* 40 and 100: the aggregate's weightedScore is 140/2
C24_Witness ==
    /\ pc = "returned"
    /\ Len(outcome.promptResults) = 3
    /\ \E i, j, k \in 1..3 :
        /\ outcome.promptResults[i].status = "error"
        /\ outcome.promptResults[j].status = "success"
        /\ outcome.promptResults[j].weightedScore = 40
        /\ outcome.promptResults[k].status = "success"
        /\ outcome.promptResults[k].weightedScore = 100
    /\ outcome.weightedScore = <<140, 2>>

\* list a is the beginning of list b
IsPrefix(a, b) == Len(a) <= Len(b) /\ a = SubSeq(b, 1, Len(a))

\* the payload names some pair k of the analysis as its currentPair and the
\* pairs after k as its remainingPairs, and every pair before k has been
\* stored and marked completed
InTurn(p) ==
    \E k \in 1..Len(pairList) :
        /\ p.currentPair = pairList[k]
        /\ p.remainingPairs = SubSeq(pairList, k + 1, Len(pairList))
        /\ Len(storedPairs) >= k - 1
        /\ \A i \in 1..(k - 1) :
               /\ storedPairs[i] = pairList[i]
               /\ analysisPair[pairList[i]] = "completed"

\* C25: each workflow invocation analyses exactly its currentPair, and the
\* next invocation is triggered, with the head of remainingPairs as its
\* currentPair and the tail as its remainingPairs, only after the current
\* pair has been stored and marked completed; so the pairs of an analysis
\* are analysed and stored one at a time, each once, in list order.
C25_OnePairPerInvocationInOrder ==
    /\ IsPrefix(analysedPairs, pairList)
    /\ IsPrefix(storedPairs, analysedPairs)
    /\ Len(analysedPairs) <= Len(storedPairs) + 1
    /\ Len(queue) <= 1
    /\ queue # <<>> => (wpc \in {"idle", "done"} /\ InTurn(queue[1]))
    /\ wpc \in WorkflowSteps => InTurn(payload)
    /\ wpc \in {"store-results", "update-progress-complete",
                "trigger-next-pair", "finalize-analysis",
                "send-completion-email"}
           => analysedPairs[Len(analysedPairs)] = payload.currentPair
    /\ wpc \in {"trigger-next-pair", "finalize-analysis",
                "send-completion-email"}
           => /\ storedPairs[Len(storedPairs)] = payload.currentPair
              /\ analysisPair[payload.currentPair] = "completed"

\* the third invocation of an analysis is about to call the AI for the
\* third pair, after the first two pairs were stored
C25_Witness ==
    /\ wpc = "ai-analysis"
    /\ Len(pairList) = 3
    /\ payload = Payload(pairList[3], <<>>)
    /\ storedPairs = SubSeq(pairList, 1, 2)

\* every pair of the analysis has been analysed, stored and marked completed
AllPairsDone ==
    /\ analysedPairs = pairList
    /\ storedPairs = pairList
    /\ \A i \in 1..Len(pairList) : analysisPair[pairList[i]] = "completed"

\* C28: the workflow sets AnalysisStatus.status to completed only in the
\* invocation whose remainingPairs is empty, after that invocation's own
\* pair has been stored and marked completed; whenever the status is
\* completed, every pair of the analysis has been analysed, stored and
\* marked completed.
C28_CompletedMeansAllPairsDone ==
    [][/\ (analysisStatus'.status = "completed"
              /\ analysisStatus.status # "completed")
             => /\ wpc = "finalize-analysis"
                /\ payload.remainingPairs = <<>>
                /\ storedPairs[Len(storedPairs)] = payload.currentPair
                /\ analysisPair[payload.currentPair] = "completed"
       /\ analysisStatus'.status = "completed" => AllPairsDone']_vars

\* an analysis of three pairs has been completed and its mail sent
C28_Witness ==
    /\ analysisStatus.status = "completed"
    /\ Len(pairList) = 3
    /\ emails = 1

\* the invocation in progress has left no trace of its own: its pair was
\* neither analysed nor stored, the pair's record is untouched, no further
\* invocation was requested
NoTrace ==
    /\ \A i \in 1..Len(analysedPairs) : analysedPairs[i] # payload.currentPair
    /\ \A i \in 1..Len(storedPairs) : storedPairs[i] # payload.currentPair
    /\ analysisPair[payload.currentPair] = "pending"
    /\ queue = <<>>

\* C29: an invocation whose analysis record is missing or whose status is
\* not running stops at the status check: the step throws and changes
\* nothing, and the invocation makes no AI call, stores no result, changes
\* no AnalysisPair or progress field and triggers no further pair.
C29_StopsAtStatusCheck ==
    [][/\ (/\ wpc = "check-analysis-status"
           /\ wpc' # wpc
           /\ ~analysisStatus.exists \/ analysisStatus.status # "running")
             => /\ wpc' = "failed"
                /\ werror'[1] \in {"Analysis not found",
                                   "Analysis not running: "}
                /\ UNCHANGED <<analysisStatus, analysisPair, queue,
                               analysedPairs, storedPairs, emails>>
                /\ NoTrace'
       /\ (wpc = "failed" /\ werror[1] \in {"Analysis not found",
                                           "Analysis not running: "})
             => UNCHANGED <<wpc, analysisPair, queue, analysedPairs,
                            storedPairs, emails>>]_vars

\* the second invocation of an analysis found the analysis stopped and
\* ended at the status check, after the first pair had been stored
C29_Witness ==
    /\ wpc = "failed"
    /\ werror = <<"Analysis not running: ", "failed">>
    /\ Len(storedPairs) = 1
    /\ payload.currentPair = pairList[2]

\* the ids of the entries of a list of prompt results
ResultIds(results) == [i \in 1..Len(results) |-> results[i].promptId]

\* C26: in both versions of analyzeWithMultiplePrompts, promptResults holds
\* exactly one entry per processed stage prompt, in template order, with
\* that prompt's id; no prompt has two entries.
C26_OneEntryPerPrompt ==
    /\ Len(promptResults) <= Len(stagePrompts)
    /\ ResultIds(promptResults)
           = [i \in 1..Len(promptResults) |-> stagePrompts[i].prompt_id]
    /\ call.fn = "analyzeWithMultiplePrompts" =>
           ResultIds(call.result.promptResults)
               = SubSeq(call.args.promptIds, 1, call.result.idx)

\* the scoring response of prompt i could not be parsed as JSON
NotJson(i) == call.result.mets[i].kind = "not-json"

\* C30: in the older service a scoring response that cannot be parsed as
\* JSON yields a result with status error, so the older
\* analyzeWithMultiplePrompts does not count that prompt as successful and
\* does not include its zero score in overallScore, weightedScore or the
\* sentiment sums.
C30_LegacyParseFailureIsError ==
    Completed("analyzeWithMultiplePrompts") =>
        LET loc == call.result
            unparsed == { i \in 1..Len(loc.mets) : NotJson(i) }
            others == (1..Len(loc.mets)) \ unparsed
        IN  /\ \A i \in unparsed :
                   \E k \in 1..Len(loc.promptResults) :
                       /\ loc.promptResults[k].promptId
                              = call.args.promptIds[i]
                       /\ loc.promptResults[k].status = "error"
            /\ loc.successfulPrompts <= Cardinality(others)
            /\ loc.totalWeightSum <= Cardinality(others)


\* the response is by itself one strictly valid JSON object
PlainObject ==
    /\ call.args.style = "plain"
    /\ JSONparse(call.args.response.text).ok
    /\ jsonTypeOf(JSONparse(call.args.response.text).value) = "object"

\* C27: the repair steps never damage input that is already valid: for every
\* text that is by itself one strictly valid JSON object, also one whose
\* string values hold //, a block comment, a comma before a closing brace,
\* braces or an apostrophe, extractAndParseJSON returns exactly the object
\* that a strict JSON parse of the text returns.
C27_ValidJsonUntouched ==
    (Completed("extractAndParseJSON") /\ PlainObject)
       => /\ ~call.result.thrown
          /\ call.result.val = JSONparse(call.args.response.text).value

====
